---- MODULE Spec2Model ----
(***************************************************************************)
(* libcoredd: the operation cache (coredd/cache.hh) over the fixed-mode     *)
(* intrusive hash table, the node pool and the LRU list; and the            *)
(* unification table (coredd/unicity.hh, detail/unique_table.hh) over the   *)
(* growing-mode hash table, with the reference-counted handles of ptr.hh.   *)
(***************************************************************************)
EXTENDS Integers, Sequences, FiniteSets, TLC

(***************************************************************************)
(* Bounds of the model.                                                     *)
(***************************************************************************)
\* Operations are 0 .. NbOps-1.
NbOps == 9
\* The cache constructor's size argument ranges over 1 .. MaxCtorSize.
MaxCtorSize == 3
\* The type lists handed to index_of and nth_t hold 1 .. MaxTypes types.
MaxTypes == 3
\* Lookups (top-level and nested) issued in one run.
MaxLookups == 6
\* clear() calls issued in one run.
MaxClears == 1
\* The wide cache: its constructor's size argument, its client's operations
\* 0 .. NbWideOps-1, and the lookups its client issues in one run.
WideCtorSize == 5
NbWideOps == 13
MaxWideLookups == 7

\* Handle variables of the client are 1 .. NbHandles.
NbHandles == 3
\* Heap addresses are 1 .. MaxAddr.
MaxAddr == 3
\* Handle operations issued in one run.
MaxSteps == 4
\* Calls of the unification table issued in one run by the client that calls
\* allocate, operator() and the handle's destructor itself.
MaxTableSteps == 6
\* Handle operations issued in one run by the client that only makes values
\* and lets their handles go.
MaxPeakSteps == 6

\* The growing table alone: the constructor's size argument ranges over
\* 1 .. MaxGrowCtorSize, and the client calls insert and erase at most
\* MaxGrowSteps times.
MaxGrowCtorSize == 5
MaxGrowSteps == 6

\* Filter lists of the cache have at most MaxFilters filters.
MaxFilters == 3

\* nullptr
NULL == 0

\* cache::max_load_factor = 0.85, as the fraction MaxLoadNum / MaxLoadDen.
MaxLoadNum == 85
MaxLoadDen == 100

VARIABLES
  \* ---- coredd::cache ----
  m_nb_buckets,   \* m_set.m_nb_buckets
  m_max_size,     \* cache::m_max_size (also the pool's number of slots)
  m_buckets,      \* m_set.m_buckets : 0 .. m_nb_buckets-1 -> slot or NULL
  m_size,         \* m_set.m_size
  slots,          \* the pool's arena: slot -> union {next ; cache_entry}
  m_free_list,    \* pool::m_free_list
  m_lru_list,     \* cache::m_lru_list : sequence of list nodes [id, entry]
  m_stats,        \* cache::m_stats : hits, misses, filtered, discarded
  stack,          \* the active calls of cache::operator(), innermost last
  ev,             \* the last step of the cache, as the caller observes it
  pre,            \* the cache as it was when the outermost active call began
  clears,         \* number of clear() calls so far
  age,            \* the stored operations by last access, oldest first
  ub              \* "none", or the undefined behaviour the run ended in

cvars == << m_nb_buckets, m_max_size, m_buckets, m_size, slots, m_free_list,
            m_lru_list, m_stats, stack, ev, pre, clears, age, ub >>

VARIABLES
  \* ---- coredd::unicity, detail::unique_table, coredd::ptr ----
  heap,           \* address -> the unique<variant> object or raw slab there
  ut_nb_buckets,  \* m_ut->m_set.m_nb_buckets
  ut_buckets,     \* m_ut->m_set.m_buckets : 0 .. ut_nb_buckets-1 -> address
  ut_size,        \* m_ut->m_set.m_size
  ut_nb_rehash,   \* m_ut->m_set.m_nb_rehash
  ut_stats,       \* unique_table::m_stats : access, hits, misses, peak
  ut_cache,       \* unique_table::m_cache : the kept slab, or NULL
  ut_cache_size,  \* unique_table::m_cache_size
  handles,        \* the client's handle variables: NoHandle, NULL or address
  pending,        \* per variable: 0, or the extra bytes of the object it points
                  \* to, allocated and constructed but not yet unified
  node_eq,        \* the client's Node equality: "as_written" or "structural"
  handler,        \* deletion_handler<unique_type>(): "unset", "erase" (the
                  \* lambda of unicity's constructor), "second" (the lambda
                  \* of the constructor of a second unicity) or "reset"
  alive,          \* the unicity object (and its unique_table) is alive
  steps,          \* number of handle operations so far
  fault           \* "none", or the undefined behaviour / assertion reached

uvars == << heap, ut_nb_buckets, ut_buckets, ut_size, ut_nb_rehash, ut_stats,
            ut_cache, ut_cache_size, handles, pending, node_eq, handler, alive,
            steps, fault >>

VARIABLES
  \* ---- the hash functions and the filter gate, applied to one value ----
  h_in,           \* the value to hash, or the operation and the filter list
  h_out           \* the hashes computed from it, or the gate's verdict

hvars == << h_in, h_out >>

vars == << cvars, uvars, hvars >>

Ops == 0 .. (NbOps - 1)
WideOps == 0 .. (NbWideOps - 1)

(***************************************************************************)
(* Helpers of the library that the cache and the tables use.                *)
(***************************************************************************)
RECURSIVE BitAnd(_, _)
\* a & b on naturals
BitAnd(a, b) ==
  IF a = 0 \/ b = 0 THEN 0
  ELSE (a % 2) * (b % 2) + 2 * BitAnd(a \div 2, b \div 2)

RECURSIVE NextPowerFrom(_, _)
NextPowerFrom(p, n) == IF p >= n THEN p ELSE NextPowerFrom(2 * p, n)

\* next_power_of_2(size): the smallest power of two >= size
next_power_of_2(n) == NextPowerFrom(1, n)

\* seed(x), converted to std::size_t: the hash of x, given as h
Seed(h) == h

\* std::hash<const Unique*>: the pointer's value
HashPointer(a) == a

(***************************************************************************)
(* The client: operations, their evaluation and the filters.                *)
(* Operations 0, 1, 2 are leaves; 3 recurses into the cache for 0 and 1     *)
(* (as SumVisitor does for lo and hi); 4 recurses for 1 and 2 and is        *)
(* rejected by the filter; 5 throws ("Incompatible SimpleDD"); 6 recurses   *)
(* for 0 and then for 5, so it fails after a nested lookup has completed;   *)
(* 7 is a leaf that the first filter rejects; 8 recurses for 0 and 2, and    *)
(* its hash addresses the bucket of 0 in every table of at most 8 buckets.  *)
(* Any further operation is a leaf.                                         *)
(***************************************************************************)
Children(op) ==
  CASE op = 3 -> << 0, 1 >>
    [] op = 4 -> << 1, 2 >>
    [] op = 6 -> << 0, 5 >>
    [] op = 8 -> << 0, 2 >>
    [] OTHER  -> << >>

Throws(op) == op = 5

\* std::hash<Operation>
HashOp(op) == op

\* What op(context) computes from the results of its nested lookups.
Combine(op, rs) ==
  IF rs = << >> THEN op + 1 ELSE 10 * (op + 1) + rs[1] + rs[2]

RECURSIVE Eval(_)
\* op(context) evaluated without any cache; 0 stands for "throws".
Eval(op) ==
  IF Throws(op) THEN 0
  ELSE IF Children(op) = << >> THEN Combine(op, << >>)
  ELSE LET r1 == Eval(Children(op)[1])
           r2 == Eval(Children(op)[2])
       IN IF r1 = 0 \/ r2 = 0 THEN 0 ELSE Combine(op, << r1, r2 >>)

\* The filters of the cache, in declared order; each maps an operation to
\* TRUE (cache it) or FALSE (reject it).
Filters == << [op \in Ops \cup WideOps |-> op # 7],
              [op \in Ops \cup WideOps |-> op # 4] >>

RECURSIVE apply_filters(_, _)
apply_filters(op, fs) ==
  IF fs = << >> THEN TRUE
  ELSE Head(fs)[op] /\ apply_filters(op, Tail(fs))

\* A gate that calls every filter of the list.
FilterCalls_all(op, fs) == [i \in 1 .. Len(fs) |-> fs[i][op]]

RECURSIVE FilterCalls(_, _)
\* The calls Filter()(op) that apply_filters makes, as their verdicts in the
\* order of the calls: the right operand of `and` is evaluated only when the
\* left one is true.
FilterCalls(op, fs) ==
  IF fs = << >> THEN << >>
  ELSE IF Head(fs)[op] THEN << TRUE >> \o FilterCalls(op, Tail(fs))
  ELSE << FALSE >>

(***************************************************************************)
(* detail::pool                                                             *)
(***************************************************************************)
FreeNode(nxt) ==
  [live |-> FALSE, next |-> nxt, operation |-> 0, result |-> 0, lru_cit |-> 0]

\* pool::pool(size): slot i is threaded to slot i+1, the last one to nullptr.
PoolInit(size) ==
  [s \in 1 .. size |-> FreeNode(IF s < size THEN s + 1 ELSE NULL)]

\* pool::deallocate(p) on arena sl with free list fl: the new <<arena, free list>>
pool_deallocate(sl, fl, p) ==
  << [sl EXCEPT ![p] = FreeNode(fl)], p >>

(***************************************************************************)
(* detail::lru_list (a std::list of cache_entry pointers)                   *)
(***************************************************************************)
LruIds(l) == {l[i].id : i \in 1 .. Len(l)}

\* insert(end(), entry): the list and the iterator to the new node
LruFreshId(l) == CHOOSE i \in 1 .. (Len(l) + 1) : i \notin LruIds(l)

LruInsertEnd(l, entry) == Append(l, [id |-> LruFreshId(l), entry |-> entry])

RECURSIVE LruWithout(_, _)
LruWithout(l, id) ==
  IF l = << >> THEN << >>
  ELSE IF Head(l).id = id THEN Tail(l)
  ELSE << Head(l) >> \o LruWithout(Tail(l), id)

LruNode(l, id) == CHOOSE n \in {l[i] : i \in 1 .. Len(l)} : n.id = id

\* splice(end(), list, it): the node of iterator it moves to the back
LruSplice(l, id) == Append(LruWithout(l, id), LruNode(l, id))

(***************************************************************************)
(* detail::hash_table, fixed mode (Rehash = false)                          *)
(***************************************************************************)
RECURSIVE Chain(_, _)
\* the elements chained from p through hook().next
Chain(sl, p) == IF p = NULL THEN << >> ELSE << p >> \o Chain(sl, sl[p].next)

SeqToSet(s) == {s[i] : i \in 1 .. Len(s)}

\* insert_check that takes the head of the bucket for the key, whatever it holds.
insert_check_no_eq(op, buckets, sl, nb) ==
  LET pos == BitAnd(HashOp(op), nb - 1)
  IN [ found |-> buckets[pos], inserted |-> buckets[pos] = NULL, bucket |-> pos ]

\* hash_table::insert_check(op, eq, commit_data) with eq = (op == entry.operation())
insert_check(op, buckets, sl, nb) ==
  LET pos   == BitAnd(HashOp(op), nb - 1)
      chain == Chain(sl, buckets[pos])
      eqs   == {i \in 1 .. Len(chain) : sl[chain[i]].operation = op}
      first == IF eqs = {} THEN 0 ELSE CHOOSE i \in eqs : \A j \in eqs : i <= j
  IN [ found    |-> IF first = 0 THEN NULL ELSE chain[first],
       inserted |-> first = 0,
       bucket   |-> pos ]

\* A commit that stores x into the bucket cell, as if the chain were the
\* empty one seen at the probe.
insert_commit_head(x, bucket, buckets, sl) ==
  << [buckets EXCEPT ![bucket] = x], sl >>

\* A commit that links x in front of the chain.
insert_commit_front(x, bucket, buckets, sl) ==
  << [buckets EXCEPT ![bucket] = x], [sl EXCEPT ![x].next = buckets[bucket]] >>

\* hash_table::insert_commit(x, commit_data): << buckets, arena >> afterwards
insert_commit(x, bucket, buckets, sl) ==
  LET chain == Chain(sl, buckets[bucket])
  IN IF chain = << >>
     THEN << [buckets EXCEPT ![bucket] = x], sl >>
     ELSE << buckets, [sl EXCEPT ![chain[Len(chain)]].next = x] >>

\* A cache entry hashed by its result.
HashEntry_of_result(sl, x) == Seed(sl[x].result)

\* std::hash<cache_entry>: seed(x.operation())
HashEntry(sl, x) == Seed(HashOp(sl[x].operation))

\* hash_table::erase(x): [found, buckets, slots]; found = FALSE is the
\* "Data to erase not found" assertion.
hash_erase(x, buckets, sl, nb) ==
  LET pos   == BitAnd(HashEntry(sl, x), nb - 1)
      chain == Chain(sl, buckets[pos])
      eqs   == {i \in 1 .. Len(chain) : sl[chain[i]].operation = sl[x].operation}
  IN IF eqs = {}
     THEN [found |-> FALSE, buckets |-> buckets, slots |-> sl]
     ELSE LET i   == CHOOSE k \in eqs : \A j \in eqs : k <= j
              cur == chain[i]
          IN IF i = 1
             THEN [found |-> TRUE,
                   buckets |-> [buckets EXCEPT ![pos] = sl[cur].next],
                   slots |-> sl]
             ELSE [found |-> TRUE,
                   buckets |-> buckets,
                   slots |-> [sl EXCEPT ![chain[i - 1]].next = sl[cur].next]]

(***************************************************************************)
(* coredd::cache                                                            *)
(***************************************************************************)
\* A capacity equal to the bucket count (a load factor of 1).
MaxSizeOf_full(nb) == nb

\* cache::cache: m_max_size(m_set.bucket_count() * max_load_factor), a double
\* converted to std::size_t (truncated).
MaxSizeOf(nb) == (nb * MaxLoadNum) \div MaxLoadDen

\* The cache's own data, as one record.
Cache ==
  [ buckets |-> m_buckets, slots |-> slots, free |-> m_free_list,
    lru |-> m_lru_list, size |-> m_size, stats |-> m_stats, ub |-> ub ]

NoPre == << >>
NoEvent == [kind |-> "none", op |-> 0, ret |-> 0]

\* The values of the constructor's size argument.
CtorSizes == 1 .. MaxCtorSize

\* cache::cache(context, size), for each size of sizes.
CacheCtor(sizes) ==
    /\ \E size \in sizes : m_nb_buckets = next_power_of_2(size)
    /\ age = << >>
    /\ m_max_size = MaxSizeOf(m_nb_buckets)
    /\ m_buckets = [b \in 0 .. (m_nb_buckets - 1) |-> NULL]
    /\ m_size = 0
    /\ slots = PoolInit(m_max_size)
    \* pool(0) writes m_free_list[size - 1] and loops to size - 1 on an
    \* unsigned size: the run ends in the constructor.
    /\ ub = IF m_max_size = 0 THEN "pool_ctor" ELSE "none"
    /\ m_free_list = IF m_max_size = 0 THEN NULL ELSE 1
    /\ m_lru_list = << >>
    /\ m_stats = [hits |-> 0, misses |-> 0, filtered |-> 0, discarded |-> 0]
    /\ stack = << >>
    /\ ev = NoEvent
    /\ pre = NoPre
    /\ clears = 0

InitCache == CacheCtor(CtorSizes)

\* m_lru_list.front(): the entry the eviction takes
EvictVictim(l) == Head(l).entry

\* A cleanup whose erase forgets --m_size.
cache_evict_keeps_size(c) ==
  LET oldest == EvictVictim(c.lru)
      er == hash_erase(oldest, c.buckets, c.slots, m_nb_buckets)
      d  == pool_deallocate(er.slots, c.free, oldest)
  IN [c EXCEPT !.buckets = er.buckets, !.slots = d[1], !.free = d[2],
               !.lru = Tail(c.lru),
               !.stats = [c.stats EXCEPT !.discarded = @ + 1]]

\* A cleanup that forgets ++m_stats.discarded.
cache_evict_uncounted(c) ==
  LET oldest == EvictVictim(c.lru)
      er == hash_erase(oldest, c.buckets, c.slots, m_nb_buckets)
      d  == pool_deallocate(er.slots, c.free, oldest)
  IN [c EXCEPT !.buckets = er.buckets, !.slots = d[1], !.free = d[2],
               !.size = c.size - 1, !.lru = Tail(c.lru)]

\* A cleanup that leaves the front node in the LRU list.
cache_evict_no_pop(c) ==
  LET oldest == EvictVictim(c.lru)
      er == hash_erase(oldest, c.buckets, c.slots, m_nb_buckets)
      d  == pool_deallocate(er.slots, c.free, oldest)
  IN [c EXCEPT !.buckets = er.buckets, !.slots = d[1], !.free = d[2],
               !.size = c.size - 1,
               !.stats = [c.stats EXCEPT !.discarded = @ + 1]]

\* cache::operator() lines 141-149: the cleanup of one entry.
cache_evict(c) ==
  IF c.lru = << >> THEN [c EXCEPT !.ub = "front_of_empty_list"]
  ELSE LET oldest == EvictVictim(c.lru) IN
    IF ~c.slots[oldest].live THEN [c EXCEPT !.ub = "stale_entry"]
    ELSE LET er == hash_erase(oldest, c.buckets, c.slots, m_nb_buckets) IN
      IF ~er.found THEN [c EXCEPT !.ub = "erase_not_found"]
      ELSE LET d == pool_deallocate(er.slots, c.free, oldest) IN
        [c EXCEPT !.buckets = er.buckets,
                  !.slots = d[1],
                  !.free = d[2],
                  !.size = c.size - 1,
                  !.lru = Tail(c.lru),
                  !.stats = [c.stats EXCEPT !.discarded = @ + 1]]

\* cache::operator() lines 151-157: allocate, construct, append to the LRU
\* list, commit to the hash table.
cache_insert(c, op, res, bucket) ==
  IF c.ub # "none" THEN c
  ELSE IF c.free = NULL THEN [c EXCEPT !.ub = "pool_exhausted"]
  ELSE LET entry == c.free
           lru2  == LruInsertEnd(c.lru, entry)
           sl2   == [c.slots EXCEPT ![entry] =
                       [live |-> TRUE, next |-> NULL, operation |-> op,
                        result |-> res, lru_cit |-> lru2[Len(lru2)].id]]
           ic    == insert_commit(entry, bucket, c.buckets, sl2)
       IN [c EXCEPT !.free = c.slots[entry].next,
                    !.lru = lru2,
                    !.buckets = ic[1],
                    !.slots = ic[2],
                    !.size = c.size + 1]

\* The cleanup test of line 141.
NeedsCleanup(c) == c.size = m_max_size

\* A store that allocates and commits before it cleans up.
cache_store_commit_first(c, op, res, bucket) ==
  LET c2 == cache_insert(c, op, res, bucket)
  IN IF c2.ub = "none" /\ NeedsCleanup(c) THEN cache_evict(c2) ELSE c2

\* cache::operator() lines 140-159, after op(m_cxt) returned res.
cache_store(c, op, res, bucket) ==
  cache_insert(IF NeedsCleanup(c) THEN cache_evict(c) ELSE c, op, res, bucket)

\* The operations stored in the hash table of cache record c.
StoredIn(c, op) ==
  \E b \in DOMAIN c.buckets :
    \E s \in SeqToSet(Chain(c.slots, c.buckets[b])) : c.slots[s].operation = op

\* ++m_stats.filtered (line 116), ++m_stats.hits (line 129),
\* ++m_stats.misses (line 135)
\* A rejected operation counted as a miss as well.
stat_filtered_and_miss(st) == [st EXCEPT !.filtered = @ + 1, !.misses = @ + 1]

stat_filtered(st) == [st EXCEPT !.filtered = @ + 1]
\* A hit counted as a miss as well.
stat_hit_and_miss(st) == [st EXCEPT !.hits = @ + 1, !.misses = @ + 1]

stat_hit(st) == [st EXCEPT !.hits = @ + 1]
stat_miss(st) == [st EXCEPT !.misses = @ + 1]

\* The caller receives r: the calling evaluation, if any, goes on.
Deliver(stk, r) ==
  IF stk = << >> THEN stk
  ELSE [stk EXCEPT ![Len(stk)].i = @ + 1, ![Len(stk)].rs = Append(@, r)]

SetCache(c) ==
  /\ m_buckets' = c.buckets
  /\ slots' = c.slots
  /\ m_free_list' = c.free
  /\ m_lru_list' = c.lru
  /\ m_size' = c.size
  /\ m_stats' = c.stats
  /\ ub' = c.ub

NbLookups == m_stats.hits + m_stats.misses + m_stats.filtered

RECURSIVE Cost(_)
\* The lookups an evaluation of op issues at most, itself included.
Cost(op) ==
  IF Children(op) = << >> THEN 1
  ELSE 1 + Cost(Children(op)[1]) + Cost(Children(op)[2])

Top == stack[Len(stack)]

\* A hit that leaves the LRU list as it is.
HitLru_no_splice(l, sl, entry) == l

\* The hit path, lines 127-133: the entry's LRU node moves to the back.
HitLru(l, sl, entry) == LruSplice(l, sl[entry].lru_cit)

\* cache::operator()(op) from its entry to the invocation of op (lines
\* 113-138), or to its return on a hit.
Begin(op) ==
  LET fresh == stack = << >> IN
  /\ IF ~apply_filters(op, Filters)
       THEN /\ m_stats' = stat_filtered(m_stats)
            /\ stack' = Append(stack, [op |-> op, mode |-> "filtered", bucket |-> 0,
                                       i |-> 1, rs |-> << >>])
            /\ ev' = [kind |-> "enter_filtered", op |-> op, ret |-> 0]
            /\ pre' = IF fresh THEN Cache ELSE pre
            /\ UNCHANGED << m_buckets, slots, m_free_list, m_lru_list, m_size, ub, age >>
       ELSE LET ins == insert_check(op, m_buckets, slots, m_nb_buckets) IN
         IF ~ins.inserted
         THEN /\ m_stats' = stat_hit(m_stats)
              /\ m_lru_list' = HitLru(m_lru_list, slots, ins.found)
              /\ stack' = Deliver(stack, slots[ins.found].result)
              /\ ev' = [kind |-> "hit", op |-> op, ret |-> slots[ins.found].result]
              /\ age' = Append(SelectSeq(age, LAMBDA o : o # op), op)
              /\ UNCHANGED << m_buckets, slots, m_free_list, m_size, ub, pre >>
         ELSE /\ m_stats' = stat_miss(m_stats)
              /\ stack' = Append(stack, [op |-> op, mode |-> "miss",
                                         bucket |-> ins.bucket, i |-> 1, rs |-> << >>])
              /\ ev' = [kind |-> "enter_miss", op |-> op, ret |-> 0]
              /\ pre' = IF fresh THEN Cache ELSE pre
              /\ UNCHANGED << m_buckets, slots, m_free_list, m_lru_list, m_size, ub, age >>

\* The client calls the cache.
Lookup(op) ==
  /\ ub = "none"
  /\ UNCHANGED << uvars, hvars >>
  /\ stack = << >>
  /\ NbLookups + Cost(op) <= MaxLookups
  /\ Begin(op)
  /\ UNCHANGED << m_nb_buckets, m_max_size, clears >>

\* The evaluation of the innermost operation calls the cache for its next
\* operand pair (SumVisitor: cxt.cache()(Operation{lhs.lo, rhs.lo}), then hi).
NestedLookup ==
  /\ ub = "none"
  /\ UNCHANGED << uvars, hvars >>
  /\ stack # << >>
  /\ ~Throws(Top.op)
  /\ Top.i <= Len(Children(Top.op))
  /\ Begin(Children(Top.op)[Top.i])
  /\ UNCHANGED << m_nb_buckets, m_max_size, clears >>

\* A cache that takes the entry's slot before it invokes op: the throw leaves
\* the slot taken.
Throw_leaks_slot ==
  /\ ub = "none"
  /\ UNCHANGED << uvars, hvars >>
  /\ stack # << >>
  /\ Throws(Top.op)
  /\ stack' = << >>
  /\ ev' = [kind |-> "failed", op |-> stack[1].op, ret |-> 0]
  /\ pre' = NoPre
  /\ m_free_list' = IF m_free_list = NULL THEN NULL ELSE slots[m_free_list].next
  /\ UNCHANGED << m_nb_buckets, m_max_size, m_buckets, m_size, slots,
                  m_lru_list, m_stats, clears, age, ub >>

\* op(m_cxt) throws: the exception leaves every active call of the cache.
Throw ==
  /\ ub = "none"
  /\ UNCHANGED << uvars, hvars >>
  /\ stack # << >>
  /\ Throws(Top.op)
  /\ stack' = << >>
  /\ ev' = [kind |-> "failed", op |-> stack[1].op, ret |-> 0]
  /\ pre' = NoPre
  /\ UNCHANGED << m_nb_buckets, m_max_size, m_buckets, m_size, slots,
                  m_free_list, m_lru_list, m_stats, clears, age, ub >>

\* op(m_cxt) returned: a filtered call returns its result, a miss stores it
\* (lines 140-159) and returns the stored result.
Return ==
  /\ ub = "none"
  /\ UNCHANGED << uvars, hvars >>
  /\ stack # << >>
  /\ ~Throws(Top.op)
  /\ Top.i > Len(Children(Top.op))
  /\ LET f    == Top
         res  == Combine(f.op, f.rs)
         rest == SubSeq(stack, 1, Len(stack) - 1)
     IN IF f.mode = "filtered"
        THEN /\ stack' = Deliver(rest, res)
             /\ ev' = [kind |-> "filtered", op |-> f.op, ret |-> res]
             /\ pre' = IF rest = << >> THEN NoPre ELSE pre
             /\ UNCHANGED << m_buckets, slots, m_free_list, m_lru_list,
                             m_size, m_stats, ub, age >>
        ELSE LET c == cache_store(Cache, f.op, res, f.bucket) IN
             /\ SetCache(c)
             /\ IF c.ub # "none"
                THEN /\ ev' = [kind |-> "undefined", op |-> f.op, ret |-> 0]
                     /\ UNCHANGED << stack, pre, age >>
                ELSE /\ stack' = Deliver(rest, res)
                     /\ ev' = [kind |-> "miss", op |-> f.op, ret |-> res]
                     /\ pre' = IF rest = << >> THEN NoPre ELSE pre
                     /\ age' = Append(SelectSeq(age, LAMBDA o : StoredIn(c, o)), f.op)
  /\ UNCHANGED << m_nb_buckets, m_max_size, clears >>

RECURSIVE AllChains(_, _, _, _)
\* The elements of buckets b .. nb-1 in the order clear_and_dispose visits them.
AllChains(buckets, sl, b, nb) ==
  IF b >= nb THEN << >>
  ELSE Chain(sl, buckets[b]) \o AllChains(buckets, sl, b + 1, nb)

RECURSIVE DisposeAll(_, _, _)
\* The disposer of cache::clear applied to each element of es in turn.
DisposeAll(sl, fl, es) ==
  IF es = << >> THEN << sl, fl >>
  ELSE LET d == pool_deallocate(sl, fl, Head(es))
       IN DisposeAll(d[1], d[2], Tail(es))

\* cache::clear(): m_set.clear_and_dispose(destruct and deallocate).
Clear ==
  /\ ub = "none"
  /\ UNCHANGED << uvars, hvars >>
  /\ stack = << >>
  /\ clears < MaxClears
  /\ LET d == DisposeAll(slots, m_free_list,
                         AllChains(m_buckets, slots, 0, m_nb_buckets))
     IN /\ slots' = d[1]
        /\ m_free_list' = d[2]
  /\ m_buckets' = [b \in 0 .. (m_nb_buckets - 1) |-> NULL]
  /\ m_size' = 0
  /\ clears' = clears + 1
  /\ ev' = [kind |-> "clear", op |-> 0, ret |-> 0]
  /\ age' = << >>
  /\ UNCHANGED << m_nb_buckets, m_max_size, m_lru_list, m_stats, stack, pre,
                  ub >>

(***************************************************************************)
(* The client's value types: Unicity = coredd::unicity<Zero, One, Node>.    *)
(***************************************************************************)
Addrs == 1 .. MaxAddr
Handles == 1 .. NbHandles
\* a handle variable that is not in scope
NoHandle == -1

ZeroData == [kind |-> "Zero", variable |-> 0, lo |-> NULL, hi |-> NULL]
OneData == [kind |-> "One", variable |-> 0, lo |-> NULL, hi |-> NULL]
NodeData(v, l, h) == [kind |-> "Node", variable |-> v, lo |-> l, hi |-> h]
NoData == [kind |-> "none", variable |-> 0, lo |-> NULL, hi |-> NULL]

\* sizeof(unique<variant<Zero, One, Node>>): hook, ref_count, index, storage
SizeofUnique == 40
\* sizeof(T), the extra bytes make<T> asks for
SizeofT(kind) == IF kind = "Node" THEN 24 ELSE 1

\* the position of T in the variant's type list
VariantIndex(kind) == CASE kind = "Zero" -> 0 [] kind = "One" -> 1 [] OTHER -> 2

\* seed(s)(val(v)): one step of hash mixing
HashCombine(s, v) == 4 * s + v

\* std::hash<ptr<Unique>>: seed(x.operator->())
HashPtr(a) == Seed(HashPointer(a))

\* std::hash<Zero>, std::hash<One>, std::hash<Node>
HashT(d) ==
  CASE d.kind = "Zero" -> 0
    [] d.kind = "One" -> 1
    [] OTHER -> HashCombine(HashCombine(d.variable, HashPtr(d.lo)), HashPtr(d.hi))

\* std::hash<variant>: seed(hash of the active type)(val(x.index))
HashVariant(d) == HashCombine(HashT(d), VariantIndex(d.kind))

\* std::hash<unique<T>>: hash<T>()(x.data())
HashUnique(h, x) == HashVariant(h[x].data)

\* operator== of Zero, One and Node; Node's as the example writes it
\* (rhs.hi == rhs.hi) or comparing both children.
EqT(l, r) ==
  IF l.kind = "Node"
  THEN /\ l.variable = r.variable
       /\ l.lo = r.lo
       /\ IF node_eq = "as_written" THEN r.hi = r.hi ELSE l.hi = r.hi
  ELSE TRUE

\* operator== of variant: same index and equal active values
EqVariant(l, r) == l.kind = r.kind /\ EqT(l, r)

\* operator== of unique: lhs.m_data == rhs.m_data
EqUnique(h, x, y) == EqVariant(h[x].data, h[y].data)

(***************************************************************************)
(* The heap of unique objects and slabs.                                    *)
(***************************************************************************)
FreeCell ==
  [state |-> "free", bytes |-> 0, data |-> NoData, ref_count |-> 0, next |-> NULL]

\* new char[bytes]: the lowest free address
NewAddr(h) == CHOOSE a \in Addrs : h[a].state = "free" /\ \A b \in Addrs : h[b].state = "free" => a <= b

HasFree(h) == \E a \in Addrs : h[a].state = "free"

\* The unification table and the heap, as one record.
Table ==
  [ heap |-> heap, buckets |-> ut_buckets, nb |-> ut_nb_buckets,
    size |-> ut_size, nb_rehash |-> ut_nb_rehash, stats |-> ut_stats,
    cache |-> ut_cache, cache_size |-> ut_cache_size, fault |-> fault ]

(***************************************************************************)
(* detail::hash_table, growing mode (Rehash = true)                         *)
(***************************************************************************)
\* hash_table's default max_load_factor = 0.75, as UtLoadNum / UtLoadDen
UtLoadNum == 75
UtLoadDen == 100

\* insert_impl that never finds an equal element
insert_impl_no_eq(t, x) ==
  LET pos == BitAnd(HashUnique(t.heap, x), t.nb - 1)
  IN [ t |-> [t EXCEPT !.heap[x].next = t.buckets[pos],
                       !.buckets[pos] = x,
                       !.size = @ + 1],
       found |-> x, inserted |-> TRUE ]

\* hash_table::insert_impl(x, buckets, nb_buckets)
insert_impl(t, x) ==
  LET pos   == BitAnd(HashUnique(t.heap, x), t.nb - 1)
      chain == Chain(t.heap, t.buckets[pos])
      eqs   == {i \in 1 .. Len(chain) : EqUnique(t.heap, x, chain[i])}
  IN IF eqs # {}
     THEN [ t |-> t,
            found |-> chain[CHOOSE i \in eqs : \A j \in eqs : i <= j],
            inserted |-> FALSE ]
     ELSE [ t |-> [t EXCEPT !.heap[x].next = t.buckets[pos],
                            !.buckets[pos] = x,
                            !.size = @ + 1],
            found |-> x, inserted |-> TRUE ]

RECURSIVE RehashAll(_, _)
\* the loop of rehash(): each element of es, unlinked, goes into the new buckets
RehashAll(t, es) ==
  IF es = << >> THEN t
  ELSE RehashAll(insert_impl([t EXCEPT !.heap[Head(es)].next = NULL], Head(es)).t,
                 Tail(es))

\* A rehash that doubles the array and leaves every chain in its bucket.
rehash_in_place(t) ==
  IF t.size * UtLoadDen < UtLoadNum * t.nb
  THEN t
  ELSE [t EXCEPT !.nb_rehash = @ + 1,
                 !.buckets = [b \in 0 .. (2 * t.nb - 1) |->
                                IF b < t.nb THEN t.buckets[b] ELSE NULL],
                 !.nb = 2 * t.nb]

\* A rehash that leaves the elements of bucket 0 behind.
rehash_skips_first(t) ==
  IF t.size * UtLoadDen < UtLoadNum * t.nb
  THEN t
  ELSE RehashAll([t EXCEPT !.nb_rehash = @ + 1,
                           !.buckets = [b \in 0 .. (2 * t.nb - 1) |-> NULL],
                           !.nb = 2 * t.nb,
                           !.size = 0],
                 AllChains(t.buckets, t.heap, 1, t.nb))

\* A rehash that waits for the load factor to exceed the maximum.
rehash_above_cap(t) ==
  IF t.size * UtLoadDen <= UtLoadNum * t.nb
  THEN t
  ELSE RehashAll([t EXCEPT !.nb_rehash = @ + 1,
                           !.buckets = [b \in 0 .. (2 * t.nb - 1) |-> NULL],
                           !.nb = 2 * t.nb,
                           !.size = 0],
                 AllChains(t.buckets, t.heap, 0, t.nb))

\* hash_table::rehash()
rehash(t) ==
  IF t.size * UtLoadDen < UtLoadNum * t.nb
  THEN t
  ELSE RehashAll([t EXCEPT !.nb_rehash = @ + 1,
                           !.buckets = [b \in 0 .. (2 * t.nb - 1) |-> NULL],
                           !.nb = 2 * t.nb,
                           !.size = 0],
                 AllChains(t.buckets, t.heap, 0, t.nb))

\* An insert that checks the load before it links the element.
hash_insert_rehash_first(t, x) == insert_impl(rehash(t), x)

\* hash_table::insert(x): insert_impl, then rehash()
hash_insert(t, x) ==
  LET r == insert_impl(t, x) IN [r EXCEPT !.t = rehash(r.t)]

\* hash_table::erase(x) in the unification table: [t, found, removed]
ut_hash_erase(t, x) ==
  LET pos   == BitAnd(HashUnique(t.heap, x), t.nb - 1)
      chain == Chain(t.heap, t.buckets[pos])
      eqs   == {i \in 1 .. Len(chain) : EqUnique(t.heap, x, chain[i])}
  IN IF eqs = {}
     THEN [t |-> t, found |-> FALSE, removed |-> NULL]
     ELSE LET i   == CHOOSE k \in eqs : \A j \in eqs : k <= j
              cur == chain[i]
          IN [ t |-> IF i = 1
                     THEN [t EXCEPT !.buckets[pos] = t.heap[cur].next, !.size = @ - 1]
                     ELSE [t EXCEPT !.heap[chain[i - 1]].next = t.heap[cur].next,
                                    !.size = @ - 1],
               found |-> TRUE, removed |-> cur ]

(***************************************************************************)
(* coredd::ptr, detail::unique and detail::unique_table                     *)
(***************************************************************************)
\* An increment by two.
IncRef_twice(u, p) == [u EXCEPT !.heap[p].ref_count = @ + 2]

\* unique::increment_reference_counter()
IncRef(u, p) == [u EXCEPT !.heap[p].ref_count = @ + 1]

RECURSIVE ptr_release(_, _)
RECURSIVE ut_erase(_, _)
RECURSIVE deletion_handler(_, _)

\* ~unique(): the payload's handles are destroyed, hi before lo
DestructUnique(u, x) ==
  LET d == u.heap[x].data
  IN IF d.kind = "Node" THEN ptr_release(ptr_release(u, d.hi), d.lo) ELSE u

\* What ~ptr() and both assignments do with a non-null m_x = a:
\* decrement_reference_counter(), then deletion_handler()(m_x) at zero.
ptr_release(u, a) ==
  IF u.fault # "none" THEN u
  ELSE IF u.heap[a].state # "live" THEN [u EXCEPT !.fault = "use_after_free"]
  ELSE IF u.heap[a].ref_count = 0 THEN [u EXCEPT !.fault = "refcount_underflow"]
  ELSE LET d == [u EXCEPT !.heap[a].ref_count = @ - 1]
       IN IF d.heap[a].ref_count = 0 THEN deletion_handler(d, a) ELSE d

\* deletion_handler<unique_type>()(x): the default and the reset handlers
\* assert; the handler of unicity's constructor calls m_ut->erase(x) through
\* the captured this, which dangles once the unicity object is destroyed.
\* The handler of a second unicity calls erase(x) of that object's table,
\* which holds no element: m_set.erase runs into its assertion.
deletion_handler(u, x) ==
  CASE handler = "unset" -> [u EXCEPT !.fault = "unset_handler"]
    [] handler = "reset" -> [u EXCEPT !.fault = "reset_handler"]
    [] handler = "second" ->
         IF u.heap[x].ref_count # 0 THEN [u EXCEPT !.fault = "still_referenced"]
         ELSE [u EXCEPT !.fault = "erase_not_found"]
    [] OTHER -> IF alive THEN ut_erase(u, x)
                ELSE [u EXCEPT !.fault = "dangling_handler"]

\* unique_table::erase(x), the deletion handler unicity installs
ut_erase(u, x) ==
  IF u.heap[x].ref_count # 0 THEN [u EXCEPT !.fault = "still_referenced"]
  ELSE LET e == ut_hash_erase(u, x)
       IN IF ~e.found THEN [u EXCEPT !.fault = "erase_not_found"]
          ELSE LET d == DestructUnique(e.t, x)
                   f == [d EXCEPT !.heap[x] = FreeCell]
               IN IF f.fault = "none" /\ e.removed # x
                  THEN [f EXCEPT !.fault = "erased_other"]
                  ELSE f

\* An allocate that takes the kept slab whatever its recorded size.
ut_allocate_any(u, extra_bytes) ==
  IF u.cache # NULL
  THEN [u |-> [u EXCEPT !.cache = NULL, !.cache_size = 0], addr |-> u.cache]
  ELSE LET a == NewAddr(u.heap)
       IN [u |-> [u EXCEPT !.heap[a] = [FreeCell EXCEPT !.state = "raw",
                                                       !.bytes = SizeofUnique + extra_bytes]],
           addr |-> a]

\* An allocate that takes the kept slab only when it is larger than the request.
ut_allocate_strict(u, extra_bytes) ==
  IF u.cache # NULL /\ u.cache_size > SizeofUnique + extra_bytes
  THEN [u |-> [u EXCEPT !.cache = NULL, !.cache_size = 0], addr |-> u.cache]
  ELSE LET a == NewAddr(u.heap)
       IN [u |-> [u EXCEPT !.heap[a] = [FreeCell EXCEPT !.state = "raw",
                                                       !.bytes = SizeofUnique + extra_bytes]],
           addr |-> a]

\* unique_table::allocate(extra_bytes): [u, addr]
ut_allocate(u, extra_bytes) ==
  IF u.cache # NULL /\ u.cache_size >= SizeofUnique + extra_bytes
  THEN [u |-> [u EXCEPT !.cache = NULL, !.cache_size = 0], addr |-> u.cache]
  ELSE LET a == NewAddr(u.heap)
       IN [u |-> [u EXCEPT !.heap[a] = [FreeCell EXCEPT !.state = "raw",
                                                       !.bytes = SizeofUnique + extra_bytes]],
           addr |-> a]

\* allocate can return a slab: the kept one fits, or the heap has room
CanAllocate(u, extra_bytes) ==
  \/ u.cache # NULL /\ u.cache_size >= SizeofUnique + extra_bytes
  \/ HasFree(u.heap)

\* new (addr) unique_type{construct<T>{}, args...}: the payload copies its
\* handle arguments
Construct(u, a, d) ==
  LET c == [u EXCEPT !.heap[a] = [@ EXCEPT !.state = "live", !.data = d,
                                           !.ref_count = 0, !.next = NULL]]
  IN IF d.kind = "Node" THEN IncRef(IncRef(c, d.lo), d.hi) ELSE c

\* A peak that follows the last size instead of the largest.
Max_last(a, b) == b

Max(a, b) == IF a >= b THEN a ELSE b

\* A hit path that keeps the duplicate's slab whatever its size.
ut_keep_slab_always(u, ptr, extra_bytes) ==
  [u EXCEPT !.heap = [a \in Addrs |->
                        IF a = ptr THEN [FreeCell EXCEPT !.state = "raw",
                                                        !.bytes = u.heap[ptr].bytes]
                        ELSE IF a = u.cache THEN FreeCell
                        ELSE u.heap[a]],
            !.cache = ptr,
            !.cache_size = SizeofUnique + extra_bytes]

\* the hit path of operator(), lines 93-103: the duplicate's slab is kept or freed
ut_keep_slab(u, ptr, extra_bytes) ==
  IF SizeofUnique + extra_bytes > u.cache_size
  THEN [u EXCEPT !.heap = [a \in Addrs |->
                             IF a = ptr THEN [FreeCell EXCEPT !.state = "raw",
                                                             !.bytes = u.heap[ptr].bytes]
                             ELSE IF a = u.cache THEN FreeCell
                             ELSE u.heap[a]],
                 !.cache = ptr,
                 !.cache_size = SizeofUnique + extra_bytes]
  ELSE [u EXCEPT !.heap[ptr] = FreeCell]

\* unique_table::operator()(ptr, extra_bytes): [u, found]
ut_unify(u, ptr, extra_bytes) ==
  LET a == [u EXCEPT !.stats.access = @ + 1]
      r == hash_insert(a, ptr)
  IN IF ~r.inserted
     THEN [ u |-> ut_keep_slab(DestructUnique([r.t EXCEPT !.stats.hits = @ + 1], ptr),
                               ptr, extra_bytes),
            found |-> r.found ]
     ELSE [ u |-> [r.t EXCEPT !.stats.misses = @ + 1,
                              !.stats.peak = Max(@, r.t.size)],
            found |-> r.found ]

\* unicity::make<T>(args...) = make_sized<T>(sizeof(T), args...): [u, addr]
make(u, d) ==
  LET al == ut_allocate(u, SizeofT(d.kind))
      r  == ut_unify(Construct(al.u, al.addr, d), al.addr, SizeofT(d.kind))
  IN [u |-> IncRef(r.u, r.found), addr |-> r.found]

(***************************************************************************)
(* The client of the unification table: handle variables and what the      *)
(* program does with them.                                                  *)
(***************************************************************************)
\* The variables the client labels its Nodes with.
NodeVariables == {0, 1}

\* unicity::unicity(ut_size), the client having no handle yet.  The table
\* starts with a single bucket, so that the run goes through each growth of
\* rehash().
InitUnicity ==
  /\ heap = [a \in Addrs |-> FreeCell]
  /\ ut_nb_buckets = next_power_of_2(1)
  /\ ut_buckets = [b \in 0 .. (ut_nb_buckets - 1) |-> NULL]
  /\ ut_size = 0
  /\ ut_nb_rehash = 0
  /\ ut_stats = [access |-> 0, hits |-> 0, misses |-> 0, peak |-> 0]
  /\ ut_cache = NULL
  /\ ut_cache_size = 0
  /\ handles = [h \in Handles |-> NoHandle]
  /\ pending = [h \in Handles |-> 0]
  /\ node_eq \in {"as_written", "structural"}
  /\ handler = "erase"
  /\ alive = TRUE
  /\ steps = 0
  /\ fault = "none"

SetTable(u) ==
  /\ heap' = u.heap
  /\ ut_buckets' = u.buckets
  /\ ut_nb_buckets' = u.nb
  /\ ut_size' = u.size
  /\ ut_nb_rehash' = u.nb_rehash
  /\ ut_stats' = u.stats
  /\ ut_cache' = u.cache
  /\ ut_cache_size' = u.cache_size
  /\ fault' = u.fault

\* The client may act: no undefined behaviour so far, operations left.
CanStep == fault = "none" /\ steps < MaxSteps

\* The next variable the client declares: the lowest one not in scope.
IsFresh(h) == handles[h] = NoHandle /\ \A g \in Handles : g < h => handles[g] # NoHandle

\* a handle variable that holds an element
Holds(h) == handles[h] # NoHandle /\ handles[h] # NULL

\* The payloads the client can make from the handles it holds.
Payloads ==
  {ZeroData, OneData}
    \cup {NodeData(v, handles[l], handles[r]) :
            v \in NodeVariables,
            l \in {x \in Handles : Holds(x)},
            r \in {x \in Handles : Holds(x)}}

\* const auto h = unicity.make<T>(args...)
Make(h, d) ==
  /\ CanStep
  /\ alive
  /\ IsFresh(h)
  /\ CanAllocate(Table, SizeofT(d.kind))
  /\ LET m == make(Table, d)
     IN /\ SetTable(m.u)
        /\ handles' = [handles EXCEPT ![h] = m.addr]
  /\ steps' = steps + 1
  /\ UNCHANGED << pending, node_eq, handler, alive, cvars, hvars >>

\* The handle expressions a copy reads: a variable, or the lo / hi member of
\* the Node a variable points to.
Sources == [h : Handles, f : {"self", "lo", "hi"}]

SrcValid(src) ==
  /\ Holds(src.h)
  /\ src.f # "self" => heap[handles[src.h]].data.kind = "Node"

\* other.m_x
SrcPtr(src) ==
  IF src.f = "self" THEN handles[src.h] ELSE heap[handles[src.h]].data[src.f]

\* ptr(const ptr& other)
CopyConstruct(h, src) ==
  /\ CanStep
  /\ IsFresh(h)
  /\ SrcValid(src)
  /\ SetTable(IncRef(Table, SrcPtr(src)))
  /\ handles' = [handles EXCEPT ![h] = SrcPtr(src)]
  /\ steps' = steps + 1
  /\ UNCHANGED << pending, node_eq, handler, alive, cvars, hvars >>

\* The tail of operator=(const ptr&), lines 103-104, after the release: other
\* is read and the element it names is incremented, whether or not the release
\* has erased them.
assign_tail(u, src, p) ==
  IF u.fault # "none" THEN u
  ELSE IF \/ (src.f # "self" /\ u.heap[handles[src.h]].state # "live")
          \/ u.heap[p].state # "live"
       THEN [u EXCEPT !.fault = "use_after_free"]
       ELSE IncRef(u, p)

\* a = other, operator=(const ptr&)
CopyAssign(a, src) ==
  /\ CanStep
  /\ handles[a] # NoHandle
  /\ SrcValid(src)
  /\ LET p == SrcPtr(src)
         r == IF handles[a] # NULL THEN ptr_release(Table, handles[a]) ELSE Table
     IN /\ SetTable(assign_tail(r, src, p))
        /\ handles' = [handles EXCEPT ![a] = p]
  /\ steps' = steps + 1
  /\ UNCHANGED << pending, node_eq, handler, alive, cvars, hvars >>

\* ptr(ptr&& other)
MoveConstruct(h, b) ==
  /\ CanStep
  /\ IsFresh(h)
  /\ handles[b] # NoHandle
  /\ handles' = [handles EXCEPT ![h] = handles[b], ![b] = NULL]
  /\ UNCHANGED << heap, ut_nb_buckets, ut_buckets, ut_size, ut_nb_rehash,
                  ut_stats, ut_cache, ut_cache_size, fault >>
  /\ steps' = steps + 1
  /\ UNCHANGED << pending, node_eq, handler, alive, cvars, hvars >>

\* a = std::move(b), operator=(ptr&&): m_x = other.m_x; other.m_x = nullptr
MoveAssign(a, b) ==
  /\ CanStep
  /\ handles[a] # NoHandle
  /\ handles[b] # NoHandle
  /\ SetTable(IF handles[a] # NULL THEN ptr_release(Table, handles[a]) ELSE Table)
  /\ handles' = [[handles EXCEPT ![a] = handles[b]] EXCEPT ![b] = NULL]
  /\ steps' = steps + 1
  /\ UNCHANGED << pending, node_eq, handler, alive, cvars, hvars >>

\* swap(a, b)
Swap(a, b) ==
  /\ CanStep
  /\ a # b
  /\ handles[a] # NoHandle
  /\ handles[b] # NoHandle
  /\ handles' = [handles EXCEPT ![a] = handles[b], ![b] = handles[a]]
  /\ UNCHANGED << heap, ut_nb_buckets, ut_buckets, ut_size, ut_nb_rehash,
                  ut_stats, ut_cache, ut_cache_size, fault >>
  /\ steps' = steps + 1
  /\ UNCHANGED << pending, node_eq, handler, alive, cvars, hvars >>

\* ~ptr(): the variable leaves its scope
Drop(h) ==
  /\ CanStep
  /\ handles[h] # NoHandle
  /\ SetTable(IF handles[h] # NULL THEN ptr_release(Table, handles[h]) ELSE Table)
  /\ handles' = [handles EXCEPT ![h] = NoHandle]
  /\ steps' = steps + 1
  /\ UNCHANGED << pending, node_eq, handler, alive, cvars, hvars >>

\* ~ptr() of a variable left dangling by a copy-assignment that erased the
\* element it points to: the decrement writes the freed element, and when the
\* count read there comes to zero the deletion handler is called with the
\* erased element, which m_set.erase does not find; otherwise the variable
\* just goes away.
DropDangling(h) ==
  /\ fault = "use_after_free"
  /\ steps < MaxSteps
  /\ alive
  /\ Holds(h)
  /\ heap[handles[h]].state # "live"
  /\ fault' \in {"use_after_free", "erase_not_found"}
  /\ handles' = [handles EXCEPT ![h] = NoHandle]
  /\ steps' = steps + 1
  /\ UNCHANGED << heap, ut_nb_buckets, ut_buckets, ut_size, ut_nb_rehash,
                  ut_stats, ut_cache, ut_cache_size >>
  /\ UNCHANGED << pending, node_eq, handler, alive, cvars, hvars >>

\* The unicity object is destroyed (its destructor is the implicit one): the
\* unique_table and its bucket array are released; the elements and the kept
\* slab are not, and the deletion handler is left as it is.
Teardown ==
  /\ CanStep
  /\ alive
  /\ alive' = FALSE
  /\ steps' = steps + 1
  /\ UNCHANGED << heap, ut_nb_buckets, ut_buckets, ut_size, ut_nb_rehash,
                  ut_stats, ut_cache, ut_cache_size, handles, pending, node_eq,
                  handler, fault, cvars, hvars >>

\* unicity<Zero, One, Node>'s constructor once more: a second object over the
\* same types, with a table of its own in which the client makes nothing;
\* set_deletion_handler stores the new object's lambda in the slot of the type.
SecondUnicity ==
  /\ CanStep
  /\ handler = "erase"
  /\ handler' = "second"
  /\ steps' = steps + 1
  /\ UNCHANGED << heap, ut_nb_buckets, ut_buckets, ut_size, ut_nb_rehash,
                  ut_stats, ut_cache, ut_cache_size, handles, pending, node_eq,
                  alive, fault, cvars, hvars >>

NextUnicity ==
  \/ \E h \in Handles : \E d \in Payloads : Make(h, d)
  \/ \E h \in Handles : \E src \in Sources : CopyConstruct(h, src)
  \/ \E a \in Handles : \E src \in Sources : CopyAssign(a, src)
  \/ \E h \in Handles : \E b \in Handles : MoveConstruct(h, b)
  \/ \E a \in Handles : \E b \in Handles : MoveAssign(a, b)
  \/ \E a \in Handles : \E b \in Handles : Swap(a, b)
  \/ \E h \in Handles : Drop(h)
  \/ \E h \in Handles : DropDangling(h)
  \/ Teardown

(***************************************************************************)
(* The client that calls the unification table itself: allocate and         *)
(* placement-new as make_sized does (unicity.hh:54-55), operator() and the  *)
(* construction of the handle (line 56) as a later call, so that several    *)
(* objects can be allocated before any of them is unified.                  *)
(***************************************************************************)
CanTableStep == fault = "none" /\ steps < MaxTableSteps

\* The sizes make_sized<T>(size, ...) is called with: size >= sizeof(T).
ExtraSizes(kind) == {SizeofT(kind), SizeofT("Node")}

\* a handle variable that holds a unified element
Unified(h) == Holds(h) /\ pending[h] = 0

\* The payloads the client can construct from its handles.
TablePayloads ==
  {ZeroData, OneData}
    \cup {NodeData(v, handles[l], handles[r]) :
            v \in NodeVariables,
            l \in {x \in Handles : Unified(x)},
            r \in {x \in Handles : Unified(x)}}

\* auto* addr = m_ut->allocate(size); auto* u = new (addr) unique_type{...};
TableAllocate(h, d, extra) ==
  /\ CanTableStep
  /\ alive
  /\ IsFresh(h)
  /\ extra \in ExtraSizes(d.kind)
  /\ CanAllocate(Table, extra)
  /\ LET al == ut_allocate(Table, extra)
     IN /\ SetTable(Construct(al.u, al.addr, d))
        /\ handles' = [handles EXCEPT ![h] = al.addr]
  /\ pending' = [pending EXCEPT ![h] = extra]
  /\ steps' = steps + 1
  /\ UNCHANGED << node_eq, handler, alive, cvars, hvars >>

\* ptr_type{&(*m_ut)(u, size)}
TableUnify(h) ==
  /\ CanTableStep
  /\ alive
  /\ handles[h] # NoHandle
  /\ pending[h] # 0
  /\ LET r == ut_unify(Table, handles[h], pending[h])
     IN /\ SetTable(IncRef(r.u, r.found))
        /\ handles' = [handles EXCEPT ![h] = r.found]
  /\ pending' = [pending EXCEPT ![h] = 0]
  /\ steps' = steps + 1
  /\ UNCHANGED << node_eq, handler, alive, cvars, hvars >>

\* ~ptr() of a handle to a unified element
TableDrop(h) ==
  /\ CanTableStep
  /\ Unified(h)
  /\ SetTable(ptr_release(Table, handles[h]))
  /\ handles' = [handles EXCEPT ![h] = NoHandle]
  /\ steps' = steps + 1
  /\ UNCHANGED << pending, node_eq, handler, alive, cvars, hvars >>

NextTable ==
  \/ \E h \in Handles : \E d \in TablePayloads :
       \E extra \in ExtraSizes(d.kind) : TableAllocate(h, d, extra)
  \/ \E h \in Handles : TableUnify(h)
  \/ \E h \in Handles : TableDrop(h)


\* No value is handed to the hash functions.
NoHash == [kind |-> "none"]

InitHash == h_in = NoHash /\ h_out = NoHash

(***************************************************************************)
(* The client that calls the growing hash table itself: hash_table<Data>    *)
(* constructed with a size, then insert(x) and erase(x) on elements the     *)
(* client owns.                                                             *)
(***************************************************************************)
\* The client's elements: Zero, One and Nodes whose hashes meet in the
\* buckets 0, 2 and 6 of the small tables; the last one is a second Zero.
GrowElements ==
  << ZeroData, OneData, NodeData(0, 1, 1), NodeData(0, 1, 2), NodeData(1, 1, 1),
     NodeData(0, 2, 1), ZeroData >>

GrowAddrs == 1 .. Len(GrowElements)

GrowCtorSizes == 1 .. MaxGrowCtorSize

\* hash_table(size, 0.75) and the client's elements, none inserted; the
\* program and the size are those of one of inputs, the client's Node
\* equality one of eqs
GrowCtor(inputs, eqs) ==
  /\ h_in \in inputs
  /\ h_out = NoHash
  /\ heap = [a \in GrowAddrs |->
               [state |-> "live", bytes |-> SizeofUnique + SizeofT(GrowElements[a].kind),
                data |-> GrowElements[a], ref_count |-> 0, next |-> NULL]]
  /\ ut_nb_buckets = next_power_of_2(h_in.size)
  /\ ut_buckets = [b \in 0 .. (ut_nb_buckets - 1) |-> NULL]
  /\ ut_size = 0
  /\ ut_nb_rehash = 0
  /\ ut_stats = [access |-> 0, hits |-> 0, misses |-> 0, peak |-> 0]
  /\ ut_cache = NULL
  /\ ut_cache_size = 0
  /\ handles = [h \in Handles |-> NoHandle]
  /\ pending = [h \in Handles |-> 0]
  /\ node_eq \in eqs
  /\ handler = "unset"
  /\ alive = TRUE
  /\ steps = 0
  /\ fault = "none"

InitGrow == GrowCtor([kind : {"grow"}, size : GrowCtorSizes], {"structural"})

\* the elements linked in the table
Linked(t) == UNION {SeqToSet(Chain(t.heap, t.buckets[b])) : b \in 0 .. (t.nb - 1)}

\* m_set.insert(&x) for an element x that is not in the table
GrowInsert(x) ==
  /\ steps < MaxGrowSteps
  /\ x \notin Linked(Table)
  /\ SetTable(hash_insert(Table, x).t)
  /\ steps' = steps + 1
  /\ UNCHANGED << handles, pending, node_eq, handler, alive, cvars, hvars >>

\* m_set.erase(&x) for an element x of the table
GrowErase(x) ==
  /\ steps < MaxGrowSteps
  /\ x \in Linked(Table)
  /\ SetTable(ut_hash_erase(Table, x).t)
  /\ steps' = steps + 1
  /\ UNCHANGED << handles, pending, node_eq, handler, alive, cvars, hvars >>

NextGrow ==
  \/ \E x \in GrowAddrs : GrowInsert(x)
  \/ \E x \in GrowAddrs : GrowErase(x)

\* The values handed to the hash functions: a cache entry for an operation,
\* to be stored in a table of nb buckets; a handle to the element at addr; a
\* unified value with payload data at addr, to be stored in a table of nb
\* buckets.
HashTableSizes == {next_power_of_2(n) : n \in CtorSizes \cup {WideCtorSize}}

HashPayloads ==
  {ZeroData, OneData}
    \cup {NodeData(v, l, r) : v \in NodeVariables, l \in Addrs, r \in Addrs}

HashInputs ==
  [kind : {"entry"}, op : Ops \cup WideOps, nb : HashTableSizes]
    \cup [kind : {"handle"}, addr : Addrs]
    \cup [kind : {"unified"}, addr : Addrs, data : HashPayloads, nb : HashTableSizes]

\* std::hash<cache_entry> and std::hash<Operation> on an entry and its
\* operation; the entry committed to the bucket that insert_check(operation)
\* names in an empty table, then erased.
HashCacheEntry ==
  /\ h_in.kind = "entry"
  /\ h_out = NoHash
  /\ LET op == h_in.op
         nb == h_in.nb
         bk == [b \in 0 .. (nb - 1) |-> NULL]
         sl == [s \in {1} |-> [live |-> TRUE, next |-> NULL, operation |-> op,
                               result |-> Combine(op, << >>), lru_cit |-> 1]]
         ic == insert_check(op, bk, sl, nb)
         cm == insert_commit(1, ic.bucket, bk, sl)
         er == hash_erase(1, cm[1], cm[2], nb)
     IN h_out' = [kind |-> "entry", lhs |-> HashEntry(sl, 1), rhs |-> HashOp(op),
                  probe |-> ic.inserted,
                  found |-> er.found /\ er.buckets = bk]
  /\ UNCHANGED << cvars, uvars, h_in >>

\* std::hash<ptr> on a handle and std::hash on its pointer.
HashHandle ==
  /\ h_in.kind = "handle"
  /\ h_out = NoHash
  /\ h_out' = [kind |-> "handle", lhs |-> HashPtr(h_in.addr),
               rhs |-> HashPointer(h_in.addr), probe |-> TRUE, found |-> TRUE]
  /\ UNCHANGED << cvars, uvars, h_in >>

\* std::hash<unique<T>> and std::hash<T> on a unified value and its payload;
\* the value inserted into an empty table, then erased.
HashUnified ==
  /\ h_in.kind = "unified"
  /\ h_out = NoHash
  /\ LET a  == h_in.addr
         t0 == [Table EXCEPT !.nb = h_in.nb,
                             !.buckets = [b \in 0 .. (h_in.nb - 1) |-> NULL],
                             !.heap[a] = [state |-> "live",
                                          bytes |-> SizeofUnique + SizeofT(h_in.data.kind),
                                          data |-> h_in.data, ref_count |-> 0,
                                          next |-> NULL]]
         r  == hash_insert(t0, a)
         er == ut_hash_erase(r.t, a)
     IN h_out' = [kind |-> "unified", lhs |-> HashUnique(t0.heap, a),
                  rhs |-> HashVariant(h_in.data),
                  probe |-> r.inserted,
                  found |-> er.found /\ er.removed = a /\ er.t.size = 0]
  /\ UNCHANGED << cvars, uvars, h_in >>

NextHash ==
  \/ HashCacheEntry
  \/ HashHandle
  \/ HashUnified

\* The hash functions alone, each applied to one value.
InitSpecHash ==
  /\ InitCache
  /\ m_nb_buckets = 2
  /\ InitUnicity
  /\ node_eq = "structural"
  /\ h_in \in HashInputs
  /\ h_out = NoHash

SpecHash == InitSpecHash /\ [][NextHash]_vars

\* The filter types a cache can be instantiated with: the two of the client
\* and one that rejects operation 0.
FilterPool == {Filters[1], Filters[2], [op \in Ops \cup WideOps |-> op # 0]}

\* The filter lists Filters... of at most MaxFilters filters.
FilterLists == UNION {[1 .. n -> FilterPool] : n \in 0 .. MaxFilters}

FilterInputs == [kind : {"gate"}, op : Ops \cup WideOps, fs : FilterLists]

\* cache::operator() lines 113-118 on a cache instantiated with the filter
\* list fs: the operation goes to op(m_cxt) directly ("filtered") or to the
\* lookup of the table ("lookup").
FilterGate ==
  /\ h_in.kind = "gate"
  /\ h_out = NoHash
  /\ LET op == h_in.op
         fs == h_in.fs
     IN h_out' = [kind |-> "gate",
                  accepted |-> apply_filters(op, fs),
                  calls |-> FilterCalls(op, fs),
                  path |-> IF ~apply_filters(op, fs) THEN "filtered" ELSE "lookup"]
  /\ UNCHANGED << cvars, uvars, h_in >>

NextFilter == FilterGate

\* The filter gate alone, applied to one operation under one filter list.
InitSpecFilter ==
  /\ InitCache
  /\ m_nb_buckets = 2
  /\ InitUnicity
  /\ node_eq = "structural"
  /\ h_in \in FilterInputs
  /\ h_out = NoHash

SpecFilter == InitSpecFilter /\ [][NextFilter]_vars

(***************************************************************************)
(* detail::index_of and detail::nth_t (coredd/detail/typelist.hh), as the   *)
(* tests of test_typelist.cc and variant's constructor use them.            *)
(***************************************************************************)
RECURSIVE index_of_last(_, _)
\* An index_of that names the last occurrence of t.
index_of_last(t, ts) ==
  IF ts[Len(ts)] = t THEN Len(ts) - 1 ELSE index_of_last(t, SubSeq(ts, 1, Len(ts) - 1))

RECURSIVE index_of(_, _)
\* index_of<T, Ts...>::value: 0 when T heads the list, else one more than
\* its index in the tail
index_of(t, ts) == IF Head(ts) = t THEN 0 ELSE 1 + index_of(t, Tail(ts))

RECURSIVE nth_t(_, _)
\* nth_t<i, Ts...>: the head for i = 0, else nth_t<i - 1> of the tail
nth_t(i, ts) == IF i = 0 THEN Head(ts) ELSE nth_t(i - 1, Tail(ts))

\* The types the tests instantiate the lists with, and the client's variants.
TestTypes == {"foo", "bar", "baz", "int", "char", "Zero", "One", "Node"}

\* index_of<T, Ts...> and nth_t<i, Ts...> compile for T in Ts and i below
\* the length of Ts.
TypelistInputs ==
  {x \in [kind : {"typelist"},
          ts : UNION {[1 .. n -> TestTypes] : n \in 1 .. MaxTypes},
          t : TestTypes,
          i : 0 .. (MaxTypes - 1)] :
     /\ x.i < Len(x.ts)
     /\ \E k \in 1 .. Len(x.ts) : x.ts[k] = x.t}

\* variant<Ts...>(construct<T>): index(index_of<T, Ts...>::value); the type
\* of position i; and the type at the index of T
TypelistApply ==
  /\ h_in.kind = "typelist"
  /\ h_out = NoHash
  /\ h_out' = [kind |-> "typelist",
               index |-> index_of(h_in.t, h_in.ts),
               nth |-> nth_t(h_in.i, h_in.ts),
               round |-> nth_t(index_of(h_in.t, h_in.ts), h_in.ts)]
  /\ UNCHANGED << cvars, uvars, h_in >>

\* The type-list functions alone, applied to one list, one type and one index.
InitSpecTypelist ==
  /\ InitCache
  /\ m_nb_buckets = 2
  /\ InitUnicity
  /\ node_eq = "structural"
  /\ h_in \in TypelistInputs
  /\ h_out = NoHash

SpecTypelist == InitSpecTypelist /\ [][TypelistApply]_vars

NextCache ==
  \/ \E op \in Ops : Lookup(op)
  \/ NestedLookup
  \/ Throw
  \/ Return
  \/ Clear

\* The operation cache alone: the unification table stays as constructed.
InitSpecCache == InitCache /\ InitUnicity /\ InitHash /\ node_eq = "structural"

SpecCache == InitSpecCache /\ [][NextCache]_vars

\* The leaves among the wide client's operations that the filters accept.
WideLeaves ==
  {op \in WideOps : Children(op) = << >> /\ ~Throws(op) /\ apply_filters(op, Filters)}

\* The wide client calls the cache: its k-th lookup is one of the k lowest
\* leaves.
WideLookup(op) ==
  /\ ub = "none"
  /\ UNCHANGED << uvars, hvars >>
  /\ stack = << >>
  /\ NbLookups < MaxWideLookups
  /\ Cardinality({o \in WideLeaves : o < op}) <= NbLookups
  /\ Begin(op)
  /\ UNCHANGED << m_nb_buckets, m_max_size, clears >>

NextWide ==
  \/ \E op \in WideLeaves : WideLookup(op)
  \/ Return
  \/ Clear

\* A cache of capacity above 3, with a client of leaf operations.
InitSpecWide ==
  CacheCtor({WideCtorSize}) /\ InitUnicity /\ InitHash /\ node_eq = "structural"

SpecWide == InitSpecWide /\ [][NextWide]_vars

\* The unification table alone: the cache stays as constructed.
InitSpecUnicity == InitUnicity /\ InitCache /\ InitHash /\ m_nb_buckets = 2

SpecUnicity == InitSpecUnicity /\ [][NextUnicity]_vars

\* The client that constructs a second unicity over the same types.
NextSecond == NextUnicity \/ SecondUnicity

InitSpecSecond == InitUnicity /\ InitCache /\ InitHash /\ m_nb_buckets = 2

SpecSecond == InitSpecSecond /\ [][NextSecond]_vars

\* The growing hash table under the client that calls it itself.
InitSpecGrow == InitGrow /\ InitCache /\ m_nb_buckets = 2

SpecGrow == InitSpecGrow /\ [][NextGrow]_vars

\* A program that has a cache (fixed mode) and a growing table and works
\* with one of them: h_in.kind names the one.
BothLookup(op) == h_in.kind = "fixed" /\ Lookup(op)

BothClear == h_in.kind = "fixed" /\ Clear

BothInsert(x) == h_in.kind = "grow" /\ GrowInsert(x)

BothErase(x) == h_in.kind = "grow" /\ GrowErase(x)

NextBoth ==
  \/ \E op \in Ops : BothLookup(op)
  \/ NestedLookup
  \/ Throw
  \/ Return
  \/ BothClear
  \/ \E x \in GrowAddrs : BothInsert(x)
  \/ \E x \in GrowAddrs : BothErase(x)

\* Both hash tables as constructed, and the program that works with the
\* growing one, under either Node equality, or with the cache.
InitSpecBoth ==
  /\ GrowCtor([kind : {"grow"}, size : GrowCtorSizes]
                \cup [kind : {"fixed"}, size : {1}],
              {"as_written", "structural"})
  /\ h_in.kind = "fixed" => node_eq = "structural"
  /\ InitCache

SpecBoth == InitSpecBoth /\ [][NextBoth]_vars

\* The unification table under the client that calls it itself.
InitSpecTable == InitUnicity /\ InitCache /\ InitHash /\ m_nb_buckets = 2

SpecTable == InitSpecTable /\ [][NextTable]_vars

(***************************************************************************)
(* The client that only makes values and lets their handles go, in longer   *)
(* runs: the table fills, empties and fills again.                          *)
(***************************************************************************)
\* const auto h = unicity.make<T>(args...)
PeakMake(h, d) ==
  /\ fault = "none"
  /\ steps < MaxPeakSteps
  /\ IsFresh(h)
  /\ CanAllocate(Table, SizeofT(d.kind))
  /\ LET m == make(Table, d)
     IN /\ SetTable(m.u)
        /\ handles' = [handles EXCEPT ![h] = m.addr]
  /\ steps' = steps + 1
  /\ UNCHANGED << pending, node_eq, handler, alive, cvars, hvars >>

\* ~ptr(): the variable leaves its scope
PeakDrop(h) ==
  /\ fault = "none"
  /\ steps < MaxPeakSteps
  /\ Holds(h)
  /\ SetTable(ptr_release(Table, handles[h]))
  /\ handles' = [handles EXCEPT ![h] = NoHandle]
  /\ steps' = steps + 1
  /\ UNCHANGED << pending, node_eq, handler, alive, cvars, hvars >>

NextPeak ==
  \/ \E h \in Handles : \E d \in Payloads : PeakMake(h, d)
  \/ \E h \in Handles : PeakDrop(h)

InitSpecPeak == InitUnicity /\ InitCache /\ InitHash /\ m_nb_buckets = 2

SpecPeak == InitSpecPeak /\ [][NextPeak]_vars

\* ---- observations on the cache ----
InTable == UNION {SeqToSet(Chain(slots, m_buckets[b])) : b \in 0 .. (m_nb_buckets - 1)}
Stored(op) == \E s \in InTable : slots[s].operation = op

LiveSlots == {s \in DOMAIN slots : slots[s].live}
Last(l) == l[Len(l)]
Returned == ev.kind \in {"hit", "miss", "filtered"}

(***************************************************************************)
(* Properties of the operation cache.                                       *)
(***************************************************************************)

\* C3 (cache correctness): every lookup that returns gives the value
\* op(context) evaluates to, and every stored result is that value; an
\* operation that is stored is never invoked by a lookup (the lookup is a hit
\* that pushes no evaluation and returns the stored result); a miss that
\* returns has stored its operation; and a stored operation stays stored until
\* an eviction or clear() removes it.
C3_CacheCorrect ==
  /\ [](Returned => ev.ret = Eval(ev.op))
  /\ [](\A s \in InTable : slots[s].result = Eval(slots[s].operation))
  /\ [][ /\ ev'.kind \in {"enter_miss", "enter_filtered"} => ~Stored(ev'.op)
         /\ ev'.kind = "hit" =>
              /\ \E s \in InTable : /\ slots[s].operation = ev'.op
                                    /\ slots[s].result = ev'.ret
              /\ Len(stack') = Len(stack)
         /\ ev'.kind = "miss" =>
              \E s \in InTable' : /\ slots'[s].operation = ev'.op
                                     /\ slots'[s].result = ev'.ret
         /\ \A op \in Ops : (Stored(op) /\ ~Stored(op)') =>
              \/ ev'.kind = "clear"
              \/ ev'.kind = "miss" /\ m_stats'.discarded = m_stats.discarded + 1
       ]_vars

\* A hit on an operation that recurses, after an eviction has happened.
C3_Witness ==
  /\ ev.kind = "hit"
  /\ Children(ev.op) # << >>
  /\ ev.ret = Eval(ev.op)
  /\ m_stats.discarded >= 1

\* C4 (capacity bound): in every reachable state, also inside nested lookups
\* and after clear(), the hash table holds at most m_max_size entries.
C4_CapacityBound ==
  /\ m_size <= m_max_size
  /\ Cardinality(InTable) <= m_max_size

\* A full cache, inside a nested lookup, after an eviction.
C4_Witness ==
  /\ m_max_size = 3
  /\ m_size = m_max_size
  /\ Cardinality(InTable) = 3
  /\ stack # << >>
  /\ m_stats.discarded >= 1

\* C5 (LRU discipline), as claimed: whenever a miss evicts, the operation that
\* leaves the table is the stored one whose last access is the oldest.
C5_LruDiscipline ==
  [][ \A op \in Ops :
        (Stored(op) /\ ~Stored(op)' /\ ev'.kind = "miss") => op = Head(age) ]_vars

\* C6 (operation failure), as claimed: when a lookup fails, the cache is as it
\* was before the call but for misses + 1.
C6_FailureLeavesCacheAsBefore ==
  [][ ev'.kind = "failed" => Cache' = [pre EXCEPT !.stats = stat_miss(@)] ]_vars

\* C6, amended: the failing call itself changes nothing but misses + 1 (the
\* step that enters the miss path only counts the miss, the throw changes
\* nothing and ends every active call, no slot is live outside the table);
\* an operation that throws before any nested lookup leaves the cache exactly
\* as before the call but for misses + 1.
C6_FailureOwnEffect ==
  [][ /\ ev'.kind = "enter_miss" =>
           /\ m_stats' = [m_stats EXCEPT !.misses = @ + 1]
           /\ UNCHANGED << m_buckets, slots, m_free_list, m_lru_list, m_size >>
      /\ ev'.kind = "failed" =>
           /\ stack' = << >>
           /\ UNCHANGED << m_buckets, slots, m_free_list, m_lru_list, m_size,
                           m_stats >>
           /\ LiveSlots' = InTable'
           /\ Len(stack) = 1 =>
                Cache' = [pre EXCEPT !.stats = [@ EXCEPT !.misses = @ + 1]]
    ]_vars

\* A failure after a nested lookup has stored its result.
C6_Witness ==
  /\ ev.kind = "failed"
  /\ stack = << >>
  /\ Children(ev.op) # << >>
  /\ m_size >= 1

\* C7 (filter transparency), as claimed: when a rejected lookup returns, the
\* size, the hash table and the LRU order are as before the call, filtered is
\* one more, hits and misses are as before, and the result is op(context).
C7_FilteredLeavesCacheAsBefore ==
  [][ (ev'.kind = "filtered" /\ stack' = << >>) =>
        /\ m_size' = pre.size
        /\ m_buckets' = pre.buckets
        /\ m_lru_list' = pre.lru
        /\ m_stats' = [pre.stats EXCEPT !.filtered = @ + 1]
        /\ ev'.ret = Eval(ev'.op) ]_vars

\* C7, amended: the rejected lookup itself only increments filtered (at its
\* entry) and returns op(context); the table, the LRU order, the size and the
\* other counters change only through the lookups its operation issues, so a
\* rejected operation that issues none leaves them exactly as before.
C7_FilteredOwnEffect ==
  [][ /\ ev'.kind = "enter_filtered" =>
           /\ m_stats' = [m_stats EXCEPT !.filtered = @ + 1]
           /\ UNCHANGED << m_buckets, slots, m_free_list, m_lru_list, m_size >>
      /\ ev'.kind = "filtered" =>
           /\ UNCHANGED << m_buckets, slots, m_free_list, m_lru_list, m_size,
                           m_stats >>
           /\ ev'.ret = Eval(ev'.op)
           /\ (stack' = << >> /\ Children(ev'.op) = << >>) =>
                Cache = [pre EXCEPT !.stats = [@ EXCEPT !.filtered = @ + 1]]
    ]_vars

\* A rejected lookup returned to the client, with entries stored.
C7_Witness ==
  /\ ev.kind = "filtered"
  /\ stack = << >>
  /\ m_size >= 1
  /\ m_stats.filtered >= 2

\* C8, as claimed: a cache constructed with size n keeps n entries, so none
\* of the first n misses on pairwise distinct operations evicts.  (While
\* nothing was evicted, cleared, hit or rejected and every earlier miss has
\* stored its result, the operations missed so far are pairwise distinct: a
\* repeated one would have been a hit.)
C8_KeepsCtorSizeEntries ==
  [][ \A n \in CtorSizes :
        ( /\ next_power_of_2(n) = m_nb_buckets
          /\ ub' = "none"
          /\ clears = 0
          /\ m_stats.hits = 0
          /\ m_stats.filtered = 0
          /\ m_stats.discarded = 0
          /\ ev'.kind = "miss"
          /\ m_stats.misses = m_size + Len(stack)
          /\ m_stats.misses <= n )
        => m_stats'.discarded = 0 ]_vars

\* C9 (a hit changes only recency): a hit increments hits by one, leaves the
\* other counters, the size, the buckets, the entries and the pool as they
\* are, returns the stored result, and moves the entry's LRU node to the back
\* of the list, the other nodes keeping their order.
C9_HitOnlyRecency ==
  [][ ev'.kind = "hit" =>
        LET s  == CHOOSE x \in InTable : slots[x].operation = ev'.op
            id == slots[s].lru_cit
        IN /\ m_stats'.hits = m_stats.hits + 1
           /\ m_stats'.misses = m_stats.misses
           /\ m_stats'.filtered = m_stats.filtered
           /\ m_stats'.discarded = m_stats.discarded
           /\ UNCHANGED << m_size, m_buckets, slots, m_free_list >>
           /\ InTable' = InTable
           /\ ev'.ret = slots[s].result
           /\ Len(m_lru_list') = Len(m_lru_list)
           /\ Last(m_lru_list') = [id |-> id, entry |-> s]
           /\ SubSeq(m_lru_list', 1, Len(m_lru_list') - 1)
                = SelectSeq(m_lru_list, LAMBDA n : n.id # id)
    ]_vars

\* A hit that has moved its entry behind a younger one.
C9_Witness ==
  /\ ev.kind = "hit"
  /\ m_size >= 2
  /\ slots[Last(m_lru_list).entry].operation = ev.op
  /\ Last(m_lru_list).id < m_lru_list[1].id

\* C10, as claimed: with capacity 1, every miss that stores its result evicts
\* an entry (discarded + 1).
C10_EveryMissEvicts ==
  [][ (m_max_size = 1 /\ ev'.kind = "miss") =>
        m_stats'.discarded = m_stats.discarded + 1 ]_vars

\* C10, amended: with capacity 1, a miss that stores its result evicts
\* (discarded + 1) exactly when an entry is stored at that time, and leaves
\* its own entry as the only one; the table is emptied only by clear().
C10_MissEvictsWhenFull ==
  [][ m_max_size = 1 =>
        /\ ev'.kind = "miss" =>
             /\ m_stats'.discarded = m_stats.discarded + (IF m_size = 1 THEN 1 ELSE 0)
             /\ m_size' = 1
             /\ \A s \in InTable' : slots'[s].operation = ev'.op
        /\ (m_size = 1 /\ m_size' = 0) => ev'.kind = "clear"
    ]_vars

\* Capacity 1, a miss returned, two evictions so far.
C10_Witness ==
  /\ m_max_size = 1
  /\ ev.kind = "miss"
  /\ m_stats.discarded >= 2

\* the operations that a step removes from the table
Evicted == {op \in Ops \cup WideOps : Stored(op) /\ ~Stored(op)'}

\* C11 (cleanup), as claimed: a miss that finds the cache at its maximal size
\* launches one cleanup, which removes half of the stored entries (rounded
\* either way), the least recently used ones.
C11_CleanupRemovesHalf ==
  [][ (ev'.kind = "miss" /\ m_size = m_max_size) =>
        LET k == Cardinality(Evicted) IN
        /\ 2 * k >= m_size - 1
        /\ 2 * k <= m_size + 1
        /\ Evicted = SeqToSet(SubSeq(age, 1, k)) ]_vars

\* the slots threaded on the pool's free list
FreeSlots == Chain(slots, m_free_list)

\* C12 (clear), as claimed: clear() leaves size 0 and an empty table, every
\* entry destructed and its slot back on the free list once, and the four
\* counters as they were; after a clear(), lookups hit, miss and evict as on
\* a freshly constructed cache: a lookup hits exactly when its operation was
\* stored or hit since the clear() and not evicted since, and a miss that
\* stores evicts exactly when as many operations are in that case as the
\* capacity, and then the least recently accessed one of them.
C12_ClearAsFresh ==
  [][ /\ ev'.kind = "clear" =>
           /\ m_size' = 0
           /\ InTable' = {}
           /\ LiveSlots' = {}
           /\ Len(FreeSlots') = m_max_size
           /\ SeqToSet(FreeSlots') = DOMAIN slots
           /\ m_stats' = m_stats
      /\ clears >= 1 =>
           /\ ev'.kind = "hit" => ev'.op \in SeqToSet(age)
           /\ ev'.kind = "enter_miss" => ev'.op \notin SeqToSet(age)
           /\ ev'.kind = "miss" =>
                Evicted = IF Len(age) = m_max_size THEN {Head(age)} ELSE {}
    ]_vars

\* C13 (never-rehash): over any sequence of lookups and clears the bucket
\* array of the cache's hash table keeps its bucket count, and the number of
\* stored entries (the table's size) never exceeds bucket_count * 0.85.
C13_NeverRehash ==
  /\ [](/\ DOMAIN m_buckets = 0 .. (m_nb_buckets - 1)
        /\ Cardinality(InTable) = m_size
        /\ m_size * MaxLoadDen <= m_nb_buckets * MaxLoadNum)
  /\ [][ /\ m_nb_buckets' = m_nb_buckets
         /\ DOMAIN m_buckets' = DOMAIN m_buckets ]_vars

\* A full cache of capacity 3 after a clear() and an eviction.
C13_Witness ==
  /\ m_nb_buckets = 4
  /\ m_size = 3
  /\ clears = 1
  /\ m_stats.discarded >= 1
  /\ stack = << >>

\* the slots of the table that hold operation op after a step
SlotsOf(op) == {s \in InTable' : slots'[s].operation = op}

\* C14 (eviction ordering), as claimed: a miss that finds the cache full has
\* removed the evicted entry before the operation is computed, that is at the
\* step that enters the miss path (the operation is invoked after it), and
\* the later step that commits the new entry removes none.
C14_EvictBeforeCompute ==
  [][ /\ (ev'.kind = "enter_miss" /\ m_size = m_max_size) =>
           (m_size' = m_size - 1 /\ Evicted # {})
      /\ ev'.kind = "miss" => Evicted = {} ]_vars

\* C14, amended: the step that enters the miss path removes nothing, so the
\* operation is computed with every entry still stored; when the operation
\* has returned, the cleanup runs if the size equals the capacity at that
\* time, and it precedes the allocation and the commit of the new entry: the
\* pool always has a slot for the new entry, which is the slot the evicted
\* entry has just given back.
C14_EvictAfterCompute ==
  [][ /\ ev'.kind = "enter_miss" =>
           (Evicted = {} /\ UNCHANGED << m_buckets, slots, m_lru_list, m_size >>)
      /\ ev'.kind = "miss" =>
           /\ Evicted # {} <=> m_size = m_max_size
           /\ Cardinality(SlotsOf(ev'.op)) = 1
           /\ m_size = m_max_size =>
                /\ m_size' = m_size
                /\ SlotsOf(ev'.op) = {EvictVictim(m_lru_list)}
           /\ m_size < m_max_size =>
                /\ m_size' = m_size + 1
                /\ SlotsOf(ev'.op) \cap InTable = {}
      /\ ub' = ub ]_vars

\* Capacity 3, operations 0, 1, 2 stored; the lookup of 3 has hit 0 and 1
\* while it was computed, then its store has evicted.
C14_Witness ==
  /\ m_max_size = 3
  /\ clears = 0
  /\ ev = [kind |-> "miss", op |-> 3, ret |-> Eval(3)]
  /\ m_stats = [hits |-> 2, misses |-> 4, filtered |-> 0, discarded |-> 1]

\* the operations stored in the table
StoredOps == {slots[s].operation : s \in InTable}

BucketOf(op) == BitAnd(HashOp(op), m_nb_buckets - 1)

\* the operations chained in bucket b of table << bk, sl >>, in chain order
ChainOps(bk, sl, b) ==
  LET chain == Chain(sl, bk[b]) IN [i \in 1 .. Len(chain) |-> sl[chain[i]].operation]

\* C20 (re-entrant commit): the commit token of every active miss names the
\* bucket its operation hashes to, whatever the lookups issued in between
\* have inserted or evicted; when the miss commits, its entry is the last of
\* that bucket's chain, every chain keeps its entries other than the one the
\* cleanup evicts in their order, every stored entry is in the bucket its operation
\* hashes to, and a lookup of the operation right afterwards finds the entry.
C20_ReentrantCommit ==
  /\ [](/\ \A i \in 1 .. Len(stack) :
             stack[i].mode = "miss" =>
               /\ stack[i].bucket \in DOMAIN m_buckets
               /\ stack[i].bucket = BucketOf(stack[i].op)
        /\ \A b \in DOMAIN m_buckets :
             \A s \in SeqToSet(Chain(slots, m_buckets[b])) :
               BucketOf(slots[s].operation) = b)
  /\ [][ ev'.kind = "miss" =>
           LET b == BucketOf(ev'.op)
               ic == insert_check(ev'.op, m_buckets', slots', m_nb_buckets)
               cleaned == IF m_size = m_max_size
                            THEN {slots[EvictVictim(m_lru_list)].operation}
                            ELSE {}
           IN /\ \A c \in DOMAIN m_buckets :
                   ChainOps(m_buckets', slots', c) =
                     SelectSeq(ChainOps(m_buckets, slots, c), LAMBDA o : o \notin cleaned)
                       \o (IF c = b THEN << ev'.op >> ELSE << >>)
              /\ ~ic.inserted
              /\ slots'[ic.found].operation = ev'.op
              /\ slots'[ic.found].result = ev'.ret
      ]_vars

\* Four buckets: the lookup of 8 has probed bucket 0 while it was empty, its
\* evaluation has stored operation 0 there, and its commit has appended 8
\* behind it.
C20_Witness ==
  /\ m_nb_buckets = 4
  /\ ev.kind = "miss"
  /\ ev.op = 8
  /\ ChainOps(m_buckets, slots, 0) = << 0, 8 >>

\* ---- observations on the unification table ----
\* the elements chained in the table
InUT == UNION {SeqToSet(Chain(heap, ut_buckets[b])) : b \in 0 .. (ut_nb_buckets - 1)}

\* the elements the client's handle variables point to
Held == {handles[h] : h \in {x \in Handles : Holds(x)}}

\* the elements the handles stored in the payloads of S point to
PayloadTargets(S) ==
  UNION {{heap[a].data.lo, heap[a].data.hi} :
           a \in {x \in S : heap[x].state = "live" /\ heap[x].data.kind = "Node"}}

RECURSIVE Closure(_)
\* S and everything reached from S through payload handles
Closure(S) ==
  IF PayloadTargets(S) \subseteq S THEN S ELSE Closure(S \cup PayloadTargets(S))

\* the elements at least one live handle points to
LiveValues == Closure(Held)

(***************************************************************************)
(* Properties of the unification table and the handles.                     *)
(***************************************************************************)

\* C1 (uniqueness): with a client equality that agrees with the hash, two
\* elements that a live handle points to hold equal payloads if and only if
\* they are the same element; the table's size counts each element and each
\* distinct payload once; and make returns a handle to an element holding the
\* payload asked for, the element an existing handle to an equal payload
\* already points to, if any.
C1_Uniqueness ==
  /\ [](node_eq = "structural" =>
          /\ \A x \in LiveValues \cup InUT : \A y \in LiveValues \cup InUT :
               (heap[x].state = "live" /\ heap[y].state = "live") =>
                 (heap[x].data = heap[y].data <=> x = y)
          /\ ut_size = Cardinality(InUT)
          /\ ut_size = Cardinality({heap[x].data : x \in InUT}))
  /\ [][ (node_eq = "structural" /\ ut_stats'.access # ut_stats.access) =>
           \A h \in {x \in Handles : IsFresh(x)} : \A d \in Payloads :
             Make(h, d) =>
               /\ heap'[handles'[h]].state = "live"
               /\ heap'[handles'[h]].data = d
               /\ handles'[h] \in InUT'
               /\ \A g \in Handles :
                    (Holds(g) /\ heap[handles[g]].data = d) => handles'[h] = handles[g]
       ]_vars

\* Two handle variables point to the one Node made twice; the table holds the
\* Node and its child.
C1_Witness ==
  /\ node_eq = "structural"
  /\ fault = "none"
  /\ Holds(2) /\ Holds(3)
  /\ handles[2] = handles[3]
  /\ heap[handles[2]].data.kind = "Node"
  /\ ut_stats.hits >= 1
  /\ ut_size = 2

\* C2 (refcount correctness), as claimed: after any sequence of handle
\* operations, the table contains exactly the elements that at least one live
\* handle (a client variable, or a handle in the payload of such an element)
\* points to.
C2_TableHoldsLiveValues ==
  node_eq = "structural" => InUT = LiveValues

\* C17 (deletion-callback lifecycle), as claimed: the deletion callback of the
\* unified type is the one the unification table's constructor installs
\* whenever a handle is constructed, and it is the reset one once the
\* unification table has been torn down.
C17_HandlerLifecycle ==
  /\ [][ (\E h \in Handles : handles[h] = NoHandle /\ handles'[h] # NoHandle) =>
           handler = "erase" ]_vars
  /\ [](~alive => handler = "reset")

C16_MoveSwapPreserve ==
  [][ /\ \A h \in Handles : \A b \in Handles :
           MoveConstruct(h, b) =>
             /\ heap' = heap
             /\ handles'[h] = handles[b]
             /\ handles'[b] = NULL
      /\ \A a \in Handles : \A b \in Handles :
           Swap(a, b) =>
             /\ heap' = heap
             /\ handles'[a] = handles[b]
             /\ handles'[b] = handles[a]
      /\ \A h \in Handles :
           (handles[h] # NULL /\ handles'[h] = NULL) =>
             \E a \in Handles : MoveConstruct(a, h) \/ MoveAssign(a, h)
    ]_vars

\* the number of handles that point to element x: the client's variables and
\* the lo and hi members of the live Nodes
HandlesTo(x) ==
  Cardinality({h \in Handles : handles[h] = x})
    + Cardinality({y \in Addrs : heap[y].state = "live" /\ heap[y].data.kind = "Node"
                                  /\ heap[y].data.lo = x})
    + Cardinality({y \in Addrs : heap[y].state = "live" /\ heap[y].data.kind = "Node"
                                  /\ heap[y].data.hi = x})

\* C15 (handle reference counting): while the behaviour is defined, the
\* refcount of every element is the number of handles that point to it and
\* no element of the table has refcount zero; a handle made from a table
\* element and a copy-constructed handle add one to the element's refcount;
\* a dropped handle takes one off, and exactly when that gives zero the
\* element is handed to the deletion callback, which erases it from the
\* table and frees it; an element leaves the table only when no handle
\* points to it any more.  Making, copy-constructing and dropping handles of
\* a live unification table have defined behaviour.
C15_RefCounting ==
  /\ [](fault = "none" =>
          \A x \in Addrs :
            /\ heap[x].state = "live" => heap[x].ref_count = HandlesTo(x)
            /\ x \in InUT => (heap[x].state = "live" /\ heap[x].ref_count >= 1))
  /\ [][ /\ ( /\ alive
              /\ fault = "none"
              /\ \E h \in Handles :
                   /\ (handles[h] = NoHandle) # (handles'[h] = NoHandle)
                   /\ \A g \in Handles \ {h} : handles'[g] = handles[g] )
             => fault' = "none"
         /\ fault' = "none" =>
             /\ \A x \in InUT \ InUT' : heap'[x].state # "live" /\ HandlesTo(x)' = 0
             /\ ut_stats'.access # ut_stats.access =>
                  \A h \in {g \in Handles : IsFresh(g)} :
                    LET x == handles'[h] IN
                    heap'[x].ref_count =
                      (IF x \in InUT THEN heap[x].ref_count ELSE 0) + 1
             /\ \A h \in {g \in Handles : IsFresh(g)} : \A src \in Sources :
                  CopyConstruct(h, src) =>
                    heap' = [heap EXCEPT ![SrcPtr(src)].ref_count = @ + 1]
             /\ \A h \in {g \in Handles : Holds(g) /\ handles'[g] = NoHandle} :
                  LET a == handles[h] IN
                  IF heap[a].ref_count > 1
                  THEN /\ heap' = [heap EXCEPT ![a].ref_count = @ - 1]
                       /\ InUT' = InUT
                  ELSE /\ a \in InUT
                       /\ a \notin InUT'
                       /\ heap'[a].state # "live"
       ]_vars

\* One and a Node over it were made, then both handles dropped: the drop of
\* the Node's handle erased the Node and, through its payload's handles, One.
C15_Witness ==
  /\ fault = "none"
  /\ alive
  /\ steps = 4
  /\ \A h \in Handles : handles[h] = NoHandle
  /\ ut_stats.peak = 2
  /\ ut_size = 0
  /\ \A x \in Addrs : heap[x].state # "live"

\* C21 -- Filter gate: the filters are called in declared order, each one only
\* if every filter before it accepted the operation (no filter after the
\* first rejecting one is called); the operation goes to the caching path
\* exactly when every filter accepts it, and with an empty filter list every
\* operation is accepted.
C21_FilterGate ==
  h_out.kind = "gate" =>
    LET op    == h_in.op
        fs    == h_in.fs
        calls == h_out.calls
        rej   == {i \in 1 .. Len(fs) : ~fs[i][op]}
    IN /\ h_out.accepted = (rej = {})
       /\ (h_out.path = "lookup") = (rej = {})
       /\ Len(calls) <= Len(fs)
       /\ \A i \in 1 .. Len(calls) : calls[i] = fs[i][op]
       /\ \A i \in 1 .. Len(calls) : i < Len(calls) => calls[i]
       /\ rej = {} => Len(calls) = Len(fs)
       /\ rej # {} => /\ Len(calls) \in rej
                      /\ \A j \in rej : Len(calls) <= j
       /\ fs = << >> => h_out.accepted /\ calls = << >>

\* A list of three filters whose second one rejects the operation: the third
\* one is not called and the operation bypasses the cache.
C21_Witness ==
  /\ h_out.kind = "gate"
  /\ Len(h_in.fs) = 3
  /\ h_in.fs[1][h_in.op]
  /\ ~h_in.fs[2][h_in.op]
  /\ h_out.calls = << TRUE, FALSE >>
  /\ h_out.path = "filtered"

\* the handles the payload at address a of heap h holds to element x
ChildRefs(h, a, x) ==
  IF h[a].data.kind = "Node"
  THEN (IF h[a].data.lo = x THEN 1 ELSE 0) + (IF h[a].data.hi = x THEN 1 ELSE 0)
  ELSE 0

\* C22 -- Unification insert on a duplicate, the client's equality agreeing
\* with its hash (the contract of the table): the table's size, buckets and
\* elements are unchanged, the existing equal element is returned, hits (and
\* access) is incremented, the duplicate is destructed (the handles of its
\* payload are released), and its slab becomes the cached slab, the previous
\* cached slab being freed, exactly when sizeof(Unique) + extra_bytes is
\* strictly larger than the recorded size of the cached slab; otherwise the
\* duplicate's slab is freed and the cached slab is unchanged.
C22_DuplicateInsert ==
  [][\A h \in Handles :
       ( /\ node_eq = "structural"
         /\ TableUnify(h)
         /\ ut_stats'.hits = ut_stats.hits + 1 ) =>
         LET dup   == handles[h]
             found == handles'[h]
             need  == SizeofUnique + pending[h]
         IN /\ ut_size' = ut_size
            /\ ut_buckets' = ut_buckets
            /\ ut_nb_buckets' = ut_nb_buckets
            /\ ut_nb_rehash' = ut_nb_rehash
            /\ InUT' = InUT
            /\ \A x \in InUT : /\ heap'[x].state = "live"
                               /\ heap'[x].data = heap[x].data
                               /\ heap'[x].next = heap[x].next
                               /\ heap'[x].ref_count =
                                    heap[x].ref_count - ChildRefs(heap, dup, x)
                                      + (IF x = found THEN 1 ELSE 0)
            /\ found \in InUT
            /\ dup \notin InUT
            /\ EqVariant(heap[dup].data, heap[found].data)
            /\ ut_stats' = [ut_stats EXCEPT !.access = @ + 1, !.hits = @ + 1]
            /\ heap'[dup].state # "live"
            /\ fault' = "none"
            /\ IF need > ut_cache_size
               THEN /\ ut_cache' = dup
                    /\ ut_cache_size' = need
                    /\ heap'[dup].state = "raw"
                    /\ heap'[dup].bytes = heap[dup].bytes
                    /\ ut_cache # NULL => heap'[ut_cache] = FreeCell
               ELSE /\ heap'[dup] = FreeCell
                    /\ ut_cache' = ut_cache
                    /\ ut_cache_size' = ut_cache_size
                    /\ ut_cache # NULL /\ heap'[ut_cache] = heap[ut_cache]
    ]_vars

\* Two duplicates have been unified with an element that three handles now
\* share, and a slab of one of them is the cached slab.
C22_Witness ==
  /\ node_eq = "structural"
  /\ ut_stats.hits = 2
  /\ ut_size = 1
  /\ \A h \in {1, 2, 3} : Unified(h) /\ handles[h] = handles[1]
  /\ heap[handles[1]].ref_count = 3
  /\ ut_cache # NULL
  /\ heap[ut_cache].state = "raw"
  /\ \E a \in Addrs : heap[a] = FreeCell

\* C23 -- Unification allocate: allocate(extra_bytes) returns the cached slab
\* exactly when a cached slab exists and its recorded size is at least
\* sizeof(Unique) + extra_bytes, and then the cache slot becomes empty;
\* otherwise it returns a fresh allocation of that size and leaves the cached
\* slab in place.
C23_Allocate ==
  [][\A h \in Handles : \A d \in TablePayloads : \A extra \in ExtraSizes(d.kind) :
       TableAllocate(h, d, extra) =>
         LET need == SizeofUnique + extra
             addr == handles'[h]
         IN /\ (addr = ut_cache) = (ut_cache # NULL /\ ut_cache_size >= need)
            /\ IF ut_cache # NULL /\ ut_cache_size >= need
               THEN /\ ut_cache' = NULL
                    /\ ut_cache_size' = 0
                    /\ heap[addr].state = "raw"
                    /\ heap'[addr].bytes = heap[addr].bytes
                    /\ \A a \in Addrs \ {addr} :
                         heap'[a].state = "free" <=> heap[a].state = "free"
               ELSE /\ heap[addr].state = "free"
                    /\ heap'[addr].bytes = need
                    /\ ut_cache' = ut_cache
                    /\ ut_cache_size' = ut_cache_size
                    /\ ut_cache # NULL => heap'[ut_cache] = heap[ut_cache]
            /\ heap'[addr].state = "live"
            /\ heap'[addr].data = d
            /\ ut_size' = ut_size
            /\ ut_buckets' = ut_buckets
            /\ ut_stats' = ut_stats
    ]_vars

\* The slab kept from a duplicate has been returned by allocate for a smaller
\* request: the cache slot is empty and the object constructed in the slab
\* waits to be unified.
C23_Witness ==
  /\ ut_stats.hits = 1
  /\ ut_cache = NULL
  /\ ut_cache_size = 0
  /\ \E h \in Handles :
       /\ pending[h] = SizeofT("Zero")
       /\ heap[handles[h]].state = "live"
       /\ heap[handles[h]].bytes = SizeofUnique + SizeofT("Node")

\* C24 (erase is reached with refcount 0 and the element present), as
\* claimed: for every sequence of handle operations on a live unification
\* table, each call of the deletion callback passes an element of the table
\* whose refcount is zero (neither "Unique still referenced" nor "Data to
\* erase not found" fires) and removes exactly that element: every element
\* that leaves the table is freed and the size goes down by one for each.
C24_EraseReached ==
  [][ /\ fault' \notin {"still_referenced", "erase_not_found", "erased_other"}
      /\ fault' = "none" =>
           /\ \A x \in InUT \ InUT' : heap'[x].state # "live"
           /\ ut_size' = ut_size - Cardinality(InUT \ InUT')
                                 + Cardinality(InUT' \ InUT)
    ]_vars

\* C25 -- Growing-mode rehash trigger: an insert (of a new element or of a
\* duplicate) is followed by a rehash exactly when the size after the insert,
\* divided by the bucket count, is at least 0.75, the exact value 0.75
\* included; the rehash doubles the bucket count and adds one to the rehash
\* counter; no other operation changes the bucket count or the counter.
C25_RehashTrigger ==
  [][ IF ut_stats'.access # ut_stats.access
      THEN LET size1 == ut_size + (ut_stats'.misses - ut_stats.misses)
           IN IF 4 * size1 >= 3 * ut_nb_buckets
              THEN /\ ut_nb_buckets' = 2 * ut_nb_buckets
                   /\ ut_nb_rehash' = ut_nb_rehash + 1
              ELSE /\ ut_nb_buckets' = ut_nb_buckets
                   /\ ut_nb_rehash' = ut_nb_rehash
      ELSE /\ ut_nb_buckets' = ut_nb_buckets
           /\ ut_nb_rehash' = ut_nb_rehash
    ]_vars

\* The third element went into a table of 4 buckets: the load factor was
\* exactly 0.75 and the table was rehashed to 8 buckets.
C25_Witness ==
  /\ fault = "none"
  /\ ut_size = 3
  /\ ut_nb_buckets = 8
  /\ ut_nb_rehash = 3
  /\ ut_stats.misses = 3

\* C26 (rehash preserves contents), as claimed: a rehash leaves the set of
\* stored elements and the size as the insert made them, keeps every element
\* at its address, introduces no duplicates, and every stored element still
\* resolves by equality afterwards; and once more than initial_capacity *
\* 0.75 distinct elements are stored, initial_capacity being the size the
\* table was constructed with, the table has been rehashed.
C26_RehashPreserves ==
  /\ [][\A x \in GrowAddrs :
          (GrowInsert(x) /\ ut_nb_rehash' # ut_nb_rehash) =>
            /\ Linked(Table)' = Linked(Table) \cup {x}
            /\ ut_size' = ut_size + 1
            /\ ut_size' = Cardinality(Linked(Table)')
            /\ \A a \in GrowAddrs : /\ heap'[a].data = heap[a].data
                                    /\ heap'[a].state = heap[a].state
            /\ \A a \in Linked(Table)' : \A b \in Linked(Table)' :
                 a # b => ~EqUnique(heap', a, b)
            /\ \A a \in Linked(Table)' :
                 LET r == insert_impl(Table', a)
                 IN ~r.inserted /\ r.found = a
       ]_vars
  /\ [](4 * ut_size > 3 * h_in.size => ut_nb_rehash >= 1)

\* C26 (rehash preserves contents), amended: a rehash leaves the set of
\* stored elements and the size as the insert made them, keeps every element
\* at its address, introduces no duplicates, and every stored element still
\* resolves by equality afterwards; and once at least bucket_count * 0.75
\* distinct elements are stored, bucket_count being the initial number of
\* buckets (the next power of two >= the constructor's size), the table has
\* been rehashed.
C26_RehashPreservesBuckets ==
  /\ [][\A x \in GrowAddrs :
          (GrowInsert(x) /\ ut_nb_rehash' # ut_nb_rehash) =>
            /\ Linked(Table)' = Linked(Table) \cup {x}
            /\ ut_size' = ut_size + 1
            /\ ut_size' = Cardinality(Linked(Table)')
            /\ \A a \in GrowAddrs : /\ heap'[a].data = heap[a].data
                                    /\ heap'[a].state = heap[a].state
            /\ \A a \in Linked(Table)' : \A b \in Linked(Table)' :
                 a # b => ~EqUnique(heap', a, b)
            /\ \A a \in Linked(Table)' :
                 LET r == insert_impl(Table', a)
                 IN ~r.inserted /\ r.found = a
       ]_vars
  /\ [](4 * ut_size >= 3 * next_power_of_2(h_in.size) => ut_nb_rehash >= 1)

\* A table constructed with size 5 (8 buckets) holds six elements after one
\* rehash to 16 buckets, three of them chained in bucket 6.
C26_Witness ==
  /\ h_in.size = 5
  /\ ut_size = 6
  /\ ut_nb_rehash = 1
  /\ ut_nb_buckets = 16
  /\ Len(Chain(heap, ut_buckets[6])) = 3

\* C27 (bucket placement): in every state of the cache's table (fixed mode)
\* and of the growing table, after inserts, evictions, clear, rehash and
\* erase alike, the number of buckets is a power of two, the bucket array has
\* that many buckets, and the hash of every chained element, recomputed and
\* masked with bucket_count - 1, is the index of the bucket that chains it.
C27_BucketPlacement ==
  /\ m_nb_buckets \in {2 ^ k : k \in 0 .. MaxCtorSize}
  /\ DOMAIN m_buckets = 0 .. (m_nb_buckets - 1)
  /\ \A b \in DOMAIN m_buckets :
       \A i \in 1 .. Len(Chain(slots, m_buckets[b])) :
         BitAnd(HashEntry(slots, Chain(slots, m_buckets[b])[i]), m_nb_buckets - 1) = b
  /\ ut_nb_buckets \in {2 ^ k : k \in 0 .. (MaxGrowCtorSize + MaxGrowSteps)}
  /\ DOMAIN ut_buckets = 0 .. (ut_nb_buckets - 1)
  /\ \A b \in DOMAIN ut_buckets :
       \A i \in 1 .. Len(Chain(heap, ut_buckets[b])) :
         BitAnd(HashUnique(heap, Chain(heap, ut_buckets[b])[i]), ut_nb_buckets - 1) = b

\* The growing table, constructed with size 1, has been rehashed three times,
\* to eight buckets, at its third element, and has had an element erased
\* since: two elements are left, in buckets 2 and 5.
C27_Witness ==
  /\ h_in.kind = "grow"
  /\ h_in.size = 1
  /\ ut_nb_rehash = 3
  /\ ut_nb_buckets = 8
  /\ ut_size = 2
  /\ ut_buckets[2] # NULL
  /\ ut_buckets[5] # NULL

\* C28 (no equal elements in a bucket): in every state, no two elements
\* chained in one bucket compare equal with the equality the table applies
\* (the operation of a cache entry, operator== of a unified value); no two
\* entries stored in the cache hold equal operations; and no two values stored
\* in the growing table hold the same payload.
C28_NoEqualElements ==
  /\ \A b \in DOMAIN m_buckets :
       LET c == Chain(slots, m_buckets[b])
       IN \A i \in 1 .. Len(c) : \A j \in 1 .. Len(c) :
            i # j => slots[c[i]].operation # slots[c[j]].operation
  /\ LET all == AllChains(m_buckets, slots, 0, m_nb_buckets)
     IN \A i \in 1 .. Len(all) : \A j \in 1 .. Len(all) :
          i # j => slots[all[i]].operation # slots[all[j]].operation
  /\ \A b \in DOMAIN ut_buckets :
       LET c == Chain(heap, ut_buckets[b])
       IN \A i \in 1 .. Len(c) : \A j \in 1 .. Len(c) :
            i # j => ~EqUnique(heap, c[i], c[j])
  /\ \A x \in Linked(Table) : \A y \in Linked(Table) :
       x # y => heap[x].data # heap[y].data

\* The two Zero elements of the client have both been handed to insert, in a
\* table constructed with size 1 that the first insert grew to two buckets:
\* the second insert found the first Zero and stored nothing.
C28_Witness ==
  /\ h_in.kind = "grow"
  /\ h_in.size = 1
  /\ steps = 2
  /\ ut_size = 1
  /\ ut_nb_buckets = 2
  /\ heap[ut_buckets[0]].data = ZeroData

\* C29 (tail insertion order, fixed mode): in every step of the cache, each
\* bucket's chain is what is left of its chain before, in the same order,
\* followed by at most one new element; a new element is the one that the
\* step commits, it is the last of the chain of the bucket its commit token
\* names, and the commit leaves the size one above what the cleanup before it
\* left; so the elements of a bucket are chained in the order of their
\* commits, and an erase keeps the order of the others.
C29_TailInsertion ==
  [][ /\ \A b \in DOMAIN m_buckets :
           LET old == ChainOps(m_buckets, slots, b)
               new == ChainOps(m_buckets', slots', b)
               kept == SelectSeq(old, LAMBDA o : o \in SeqToSet(new))
           IN /\ Len(new) <= Len(kept) + 1
              /\ SubSeq(new, 1, Len(kept)) = kept
              /\ Len(new) = Len(kept) + 1 =>
                   /\ ev'.kind = "miss"
                   /\ new[Len(new)] = ev'.op
                   /\ stack # << >>
                   /\ b = Top.bucket
      /\ ev'.kind = "miss" =>
           /\ stack # << >>
           /\ LET new == ChainOps(m_buckets', slots', Top.bucket)
              IN new # << >> /\ new[Len(new)] = ev'.op
           /\ m_size' = (IF m_size = m_max_size THEN m_size - 1 ELSE m_size) + 1
    ]_vars

\* Four buckets, capacity 3: operation 0 was chained in front of 8 in bucket
\* 0, a cleanup has erased it from there, and its second commit, after a
\* second cleanup, has appended it behind 8.
C29_Witness ==
  /\ m_nb_buckets = 4
  /\ m_stats.discarded = 2
  /\ m_stats.misses = 5
  /\ ev.kind = "miss"
  /\ ev.op = 0
  /\ ChainOps(m_buckets, slots, 0) = << 8, 0 >>
  /\ m_size = 3

\* C30 (deletion callback set once per type): once a unification table has
\* installed its deletion callback nothing replaces it, the construction of a
\* second table over the same types included; and while the table is alive,
\* dropping the last handle of a value erases the value from the table that
\* created it.
C30_HandlerSetOnce ==
  /\ [][handler = "erase" => handler' = "erase"]_vars
  /\ [][\A h \in Handles :
         ( /\ node_eq = "structural"
           /\ alive
           /\ Holds(h)
           /\ heap[handles[h]].state = "live"
           /\ heap[handles[h]].ref_count = 1
           /\ Drop(h) ) =>
             /\ fault' = "none"
             /\ handles[h] \notin InUT'
             /\ heap'[handles[h]].state = "free"
       ]_vars

\* C31 (typelist round trip): for every type T of a list Ts, index_of<T,
\* Ts...> is the zero-based position of the first occurrence of T in Ts, no
\* earlier position holding T; nth_t<i, Ts...> is the type at position i; and
\* nth_t<index_of<T, Ts...>, Ts...> is T. The values the tests assert are
\* among them, and the variant index of the client's types is their index_of
\* in <Zero, One, Node>.
C31_TypelistRoundTrip ==
  h_out # NoHash =>
    /\ h_out.kind = "typelist"
    /\ h_out.index \in 0 .. (Len(h_in.ts) - 1)
    /\ h_in.ts[h_out.index + 1] = h_in.t
    /\ \A k \in 1 .. h_out.index : h_in.ts[k] # h_in.t
    /\ h_out.nth = h_in.ts[h_in.i + 1]
    /\ h_out.round = h_in.t
    /\ (h_in.ts = << "int", "int", "baz" >> /\ h_in.t = "int") => h_out.index = 0
    /\ (h_in.ts = << "foo", "bar", "int" >> /\ h_in.i = 2) => h_out.nth = "int"
    /\ h_in.ts = << "Zero", "One", "Node" >> => h_out.index = VariantIndex(h_in.t)

\* index_of<int, int, int, baz> of the test: two occurrences, the first at 0.
C31_Witness ==
  /\ h_in.ts = << "int", "int", "baz" >>
  /\ h_in.t = "int"
  /\ h_in.i = 2
  /\ h_out # NoHash
  /\ h_out.index = 0
  /\ h_out.nth = "baz"
  /\ h_out.round = "int"

\* C32 (LRU list and table agree): between calls, the entries of the LRU
\* list's nodes are exactly the entries stored in the hash table, each in one
\* node, and the LRU position recorded in a stored entry is the node that
\* holds this entry; and no eviction takes a front node whose entry is not
\* live or that the table's erase does not find.
C32_LruMatchesTable ==
  /\ (stack = << >> /\ ub = "none") =>
       /\ {m_lru_list[i].entry : i \in 1 .. Len(m_lru_list)} = InTable
       /\ Len(m_lru_list) = Cardinality(InTable)
       /\ \A s \in InTable :
            /\ slots[s].lru_cit \in LruIds(m_lru_list)
            /\ LruNode(m_lru_list, slots[s].lru_cit).entry = s
  /\ ub \notin {"front_of_empty_list", "stale_entry", "erase_not_found"}

\* C33 (copy-assignment is safe), as claimed: for every handle a and every
\* handle expression b (a variable, a itself, or the lo or hi member of the
\* Node a points to), a = b has defined behaviour, leaves a pointing to a live
\* element of the table, and leaves every live element's refcount equal to
\* the number of handles that point to it.
C33_CopyAssignSafe ==
  [][\A a \in Handles : \A src \in Sources :
       ( /\ fault = "none"
         /\ alive
         /\ node_eq = "structural"
         /\ CopyAssign(a, src) ) =>
           /\ fault' = "none"
           /\ handles'[a] \in InUT'
           /\ heap'[handles'[a]].state = "live"
           /\ \A x \in Addrs :
                heap'[x].state = "live" => heap'[x].ref_count = HandlesTo(x)'
    ]_vars

\* C34 (pool balance), as claimed: for every constructor size >= 1 the cache
\* is constructed and runs without undefined behaviour of the pool; the slots
\* handed out are as many as the table's size, they are the stored entries,
\* and they are at most the slots of the pool; every other slot is on the free
\* list exactly once.
C34_PoolBalance ==
  /\ ub \notin {"pool_ctor", "pool_exhausted"}
  /\ Cardinality(LiveSlots) = m_size
  /\ LiveSlots = InTable
  /\ m_size <= Len(slots)
  /\ Len(FreeSlots) = Cardinality(SeqToSet(FreeSlots))
  /\ SeqToSet(FreeSlots) = DOMAIN slots \ LiveSlots

\* the lookups that have counted their miss and not yet stored their result
MissesInProgress == Cardinality({i \in 1 .. Len(stack) : stack[i].mode = "miss"})

\* C35 (cache counters), as claimed: a step that enters a lookup increments
\* exactly one of filtered, hits and misses by 1 and no other step changes
\* them; discarded never exceeds misses; size <= misses - discarded in every
\* state; and size = misses - discarded in every state reached without a
\* failed operation and without clear().
C35_Counters ==
  /\ [](/\ m_stats.discarded <= m_stats.misses
        /\ m_size <= m_stats.misses - m_stats.discarded)
  /\ [][ /\ LET df == m_stats'.filtered - m_stats.filtered
                 dh == m_stats'.hits - m_stats.hits
                 dm == m_stats'.misses - m_stats.misses
             IN IF ev'.kind \in {"enter_filtered", "hit", "enter_miss"}
                THEN << df, dh, dm >> \in {<< 1, 0, 0 >>, << 0, 1, 0 >>, << 0, 0, 1 >>}
                ELSE << df, dh, dm >> = << 0, 0, 0 >>
         /\ ( /\ m_size = m_stats.misses - m_stats.discarded
              /\ ev'.kind \notin {"failed", "clear"} ) =>
                m_size' = m_stats'.misses - m_stats'.discarded
     ]_vars

\* C35, amended: as above, but the equality counts the lookups in progress:
\* size plus the misses that have not yet stored their result equals misses -
\* discarded in every state reached without a failed operation and without
\* clear(), so that size = misses - discarded holds between calls.
C35_CountersInProgress ==
  /\ [](/\ m_stats.discarded <= m_stats.misses
        /\ m_size + MissesInProgress <= m_stats.misses - m_stats.discarded)
  /\ [][ /\ LET df == m_stats'.filtered - m_stats.filtered
                 dh == m_stats'.hits - m_stats.hits
                 dm == m_stats'.misses - m_stats.misses
             IN IF ev'.kind \in {"enter_filtered", "hit", "enter_miss"}
                THEN << df, dh, dm >> \in {<< 1, 0, 0 >>, << 0, 1, 0 >>, << 0, 0, 1 >>}
                ELSE << df, dh, dm >> = << 0, 0, 0 >>
         /\ ( /\ m_size + MissesInProgress = m_stats.misses - m_stats.discarded
              /\ ev'.kind \notin {"failed", "clear"} ) =>
                m_size' + MissesInProgress' = m_stats'.misses - m_stats'.discarded
         /\ ev'.kind = "enter_filtered" => m_stats'.filtered = m_stats.filtered + 1
         /\ ev'.kind = "hit" => m_stats'.hits = m_stats.hits + 1
         /\ ev'.kind = "enter_miss" => m_stats'.misses = m_stats.misses + 1
     ]_vars

\* Inside a lookup that has counted its miss, after an eviction, a hit and a
\* rejected lookup, no operation having failed and no clear() called: the
\* size is one below misses - discarded.
C35_Witness ==
  /\ clears = 0
  /\ MissesInProgress = 1
  /\ m_stats.discarded >= 1
  /\ m_stats.hits >= 1
  /\ m_stats.filtered >= 1
  /\ m_size + 1 = m_stats.misses - m_stats.discarded

\* C36 -- Unification-table counters: in every state access = hits + misses
\* and peak >= size; peak never decreases; and peak is the largest size the
\* table has had right after an insertion: it starts at 0, an insertion (a
\* counted miss) makes it the larger of its value and the size right after
\* the insertion, and nothing else changes it.
C36_TableCounters ==
  /\ [](/\ ut_stats.access = ut_stats.hits + ut_stats.misses
        /\ ut_stats.peak >= ut_size
        /\ ut_stats.misses = 0 => ut_stats.peak = 0)
  /\ [][ /\ ut_stats'.peak >= ut_stats.peak
         /\ IF ut_stats'.misses # ut_stats.misses
            THEN /\ ut_stats'.misses = ut_stats.misses + 1
                 /\ ut_size' = ut_size + 1
                 /\ ut_stats'.peak = (IF ut_size' > ut_stats.peak
                                      THEN ut_size' ELSE ut_stats.peak)
            ELSE /\ ut_stats'.peak = ut_stats.peak
                 /\ ut_size' <= ut_size
     ]_vars

\* Two elements were stored (peak 2), both were erased, and a third insertion
\* into the empty table left the peak at 2; one unification was a hit.
C36_Witness ==
  /\ fault = "none"
  /\ ut_stats.peak = 2
  /\ ut_size = 1
  /\ ut_stats.misses = 3
  /\ ut_stats.hits >= 1
  /\ ut_stats.access = ut_stats.hits + 3

\* C37 -- Growing-mode load bound: in every state, so after every insert,
\* size / bucket_count is strictly below the maximum load factor 0.75; a step
\* at most doubles the bucket count once (nb_rehash grows by one with it); a
\* step that does not grow the size (the insert of a duplicate, an erase)
\* leaves the bucket count and the rehash counter alone; and the bucket
\* count never decreases.
C37_LoadBound ==
  /\ [](ut_size * UtLoadDen < UtLoadNum * ut_nb_buckets)
  /\ [][ /\ ut_nb_buckets' >= ut_nb_buckets
         /\ \/ /\ ut_nb_buckets' = ut_nb_buckets
               /\ ut_nb_rehash' = ut_nb_rehash
            \/ /\ ut_nb_buckets' = 2 * ut_nb_buckets
               /\ ut_nb_rehash' = ut_nb_rehash + 1
               /\ ut_size' = ut_size + 1
               /\ ut_size' * UtLoadDen >= UtLoadNum * ut_nb_buckets
         /\ ut_size' <= ut_size =>
              /\ ut_nb_buckets' = ut_nb_buckets
              /\ ut_nb_rehash' = ut_nb_rehash
     ]_vars

\* A table constructed with one bucket after four inserts, no erase: three
\* of them stored an element and doubled the table (1, 2, 4, 8 buckets), and
\* one was the insert of the second Zero while the first was stored.
C37_Witness ==
  /\ h_in.kind = "grow"
  /\ steps = 4
  /\ ut_size = 3
  /\ ut_nb_rehash = 3
  /\ ut_nb_buckets = 8
  /\ \E x \in Linked(Table) : heap[x].data = ZeroData

\* C38 -- Slab recycling is size-safe: the recorded size of the kept slab
\* never exceeds the real size of that slab; a slab is kept exactly when the
\* recorded size is positive; and the slab allocate(extra_bytes) returns has
\* a real size of at least sizeof(U) + extra_bytes, whether it is new or the
\* kept one, and stays of that size until it is unified.
C38_SlabSizeSafe ==
  /\ []( /\ (ut_cache # NULL) <=> (ut_cache_size > 0)
         /\ ut_cache # NULL =>
              /\ heap[ut_cache].state = "raw"
              /\ ut_cache_size <= heap[ut_cache].bytes
         /\ \A h \in Handles :
              pending[h] # 0 =>
                heap[handles[h]].bytes >= SizeofUnique + pending[h] )
  /\ [][ \A h \in Handles :
           (pending[h] = 0 /\ pending'[h] # 0) =>
             /\ heap'[handles'[h]].bytes >= SizeofUnique + pending'[h]
             /\ handles'[h] = ut_cache =>
                  /\ ut_cache_size >= SizeofUnique + pending'[h]
                  /\ ut_cache' = NULL
                  /\ ut_cache_size' = 0
     ]_vars

\* The kept slab was allocated for a Node-sized request, recycled for a
\* smaller request and reported with that smaller size when its value turned
\* out to be a duplicate: its recorded size is below its real size.
C38_Witness ==
  /\ fault = "none"
  /\ ut_cache # NULL
  /\ ut_cache_size = SizeofUnique + SizeofT("Zero")
  /\ heap[ut_cache].bytes = SizeofUnique + SizeofT("Node")
  /\ ut_stats.hits = 2

====
